---- MODULE Spec2Model ----
(***************************************************************************)
(* InterscaleHUB: the two directional pipelines that couple NEST and TVB   *)
(* through one shared buffer.                                              *)
(*                                                                         *)
(*   NEST -> TVB : Interscale_hub/communicator_nest_to_tvb.py              *)
(*   TVB -> NEST : refactored_modular/communicator_tvb_to_nest.py          *)
(*                                                                         *)
(* One direction is active per run (variable direction, fixed by Init).    *)
(* In each direction one rank runs the receive loop (_receive) and another *)
(* rank runs the emit loop (_send); the two ranks share the buffer and     *)
(* interleave freely.  Every statement of a loop that touches the buffer   *)
(* or a communicator is one action; the external simulators are the        *)
(* environment and their messages are drawn from small sets.               *)
(***************************************************************************)
EXTENDS Integers, Sequences, FiniteSets, TLC

VARIABLES
    mgr,        \* the manager of one process: its rank, the role lists, its group
    procs,      \* per rank of the group: what its call of start() runs
    links,      \* per rank of the group: its manager's two intercomms
    files,      \* NEST's spike_generator.txt, its .unlock, and the manager reading it
    stopped,    \* the response of the communicator's stop(), once called
    deleg,      \* the ElephantDelegator: the names it routes, the last lookup and call
    direction,  \* "NEST_TO_TVB" or "TVB_TO_NEST", selected at launch
    buffer,     \* the shared buffer: B cells, buffer[B] state, buffer[B-1] header
    rpc,        \* position of the receive rank in _receive
    recv,       \* locals of _receive
    rret,       \* what _receive returned ("RUNNING" until it returns)
    epc,        \* position of the emit rank in _send
    emit,       \* locals of _send
    eret,       \* what _send returned ("RUNNING" until it returns)
    hist,       \* history of the run (observes, never read by the loops)
    wire        \* what the last step did on a communicator, and which rank

vars == <<mgr, procs, links, files, stopped, deleg, direction, buffer, rpc, recv, rret, epc,
          emit, eret, hist, wire>>

(***************************************************************************)
(* Bounds of the model                                                     *)
(***************************************************************************)
MaxSteps == 2       \* tag-0 steps each simulator offers in one run
MaxSpikes == 2      \* spikes one NEST rank announces in one step
MaxRates == 1       \* rate samples TVB announces in one step
MaxSkips == 1       \* skip steps (tag 1) NEST offers in one run
MaxIds == 1         \* generator ids one NEST rank requests in one step
NumNest == 2        \* ranks of the NEST side
NumTvb == 2         \* ranks of the TVB side
max_events == 6     \* payload cells of the buffer
nb_neurons == 2     \* param['nb_neurons'][0]
first_id == 0       \* param['id_first_neurons'][0]
time_synch == 2     \* param['time_synchronization']
nb_spike_generators == 2       \* generators served by rate_to_spike
id_first_spike_detector == 0   \* parameters['id_first_spike_detector']

\* control tags the simulators may put on a message; 3 stands for any tag
\* outside {0, 1, 2}
Tags == {0, 1, 2, 3}

(***************************************************************************)
(* The shared buffer                                                       *)
(***************************************************************************)
B == 2 + max_events

\* DATA_BUFFER_STATES, as the float stored in the state cell
HEAD == 0
READY == 1
READY_TO_RECEIVE == 1
READY_TO_TRANSFORM == 2

\* Python index (negative counts from the end) to a cell of the sequence
Cell(index) == IF index < 0 THEN B + index + 1 ELSE index + 1

create_mpi_shared_memory_buffer == [c \in 1..B |-> 0]

get_at(buf, index) == buf[Cell(index)]

set_ready_state_at(buf, index, state) == [buf EXCEPT ![Cell(index)] = state]

set_header_at(buf, index, header) == [buf EXCEPT ![Cell(index)] = header]

set_ready_at(buf, index) == [buf EXCEPT ![Cell(index)] = READY]

set_head_at(buf, index) == [buf EXCEPT ![Cell(index)] = HEAD]

set_custom_value_at(buf, index, value) == [buf EXCEPT ![Cell(index)] = value]

\* Recv([get_from(starting_index), MPI.DOUBLE]): the message lands in the
\* cells starting_index, starting_index+1, ... of the buffer
RecvInto(buf, starting_index, msg) ==
    [c \in 1..B |->
        IF starting_index < c /\ c <= starting_index + Len(msg)
        THEN msg[c - starting_index]
        ELSE buf[c]]

\* get_from(starting_index) is the slice databuffer[starting_index:], the
\* control cells included: a message of n floats fits when it ends inside
\* the buffer; a longer one is truncated and Recv raises
Fits(starting_index, n) == starting_index + n <= B

\* what a truncated Recv may leave in the buffer: nothing of the message, or
\* the part of it that fits
Truncated(buf, starting_index, msg) ==
    {buf,
     RecvInto(buf, starting_index,
              SubSeq(msg, 1, IF starting_index < B THEN B - starting_index
                             ELSE 0))}

PayloadCells(buf) == SubSeq(buf, 1, B - 2)

RECURSIVE SumSeq(_)
SumSeq(s) == IF s = <<>> THEN 0 ELSE Head(s) + SumSeq(Tail(s))

(***************************************************************************)
(* Messages of the simulators                                              *)
(***************************************************************************)
\* NEST rank `source`, simulation step `step`, n spikes: n triples
\* (device_id, neuron_id, spike_time); the spike time names the step
SpikeMsg(step, source, n) ==
    [j \in 1..(3 * n) |->
        CASE (j - 1) % 3 = 0 -> 100
          [] (j - 1) % 3 = 1 -> first_id + (source % nb_neurons)
          [] OTHER -> step]

\* the `shape` floats a NEST rank sends after announcing `shape`
SpikeFloats(step, source, shape) ==
    SubSeq(SpikeMsg(step, source, (shape + 2) \div 3), 1, shape)

\* TVB, simulation step `step`: [t_start, t_end]
TimesMsg(step) == <<(step - 1) * time_synch, step * time_synch>>

\* TVB, simulation step `step`: n rate samples
RateMsg(step, n) == [j \in 1..n |-> 10 * step]

(***************************************************************************)
(* SpikesToRate.transform                                                  *)
(***************************************************************************)
\* int(np.rint(size_buffer / 3)) for size_buffer >= 0
Rint3(size_buffer) == (size_buffer + 1) \div 3

\* spikes_neurons[idx] with Python's indexing of a list of n elements
PyIndexOk(idx, n) == -n <= idx /\ idx < n
PyIndex(idx, n) == IF idx >= 0 THEN idx + 1 ELSE n + idx + 1

RECURSIVE ReshapeFrom(_, _, _, _)
ReshapeFrom(index_data, n, buf, spikes_neurons) ==
    IF index_data >= n
    THEN [raised |-> "none", spikes_neurons |-> spikes_neurons]
    ELSE IF index_data * 3 + 2 >= Len(buf)
    THEN [raised |-> "IndexError", spikes_neurons |-> spikes_neurons]
    ELSE LET id_neurons == buf[index_data * 3 + 2]
             time_step == buf[index_data * 3 + 3]
             idx == id_neurons - first_id
         IN  IF ~PyIndexOk(idx, nb_neurons)
             THEN [raised |-> "IndexError", spikes_neurons |-> spikes_neurons]
             ELSE ReshapeFrom(index_data + 1, n, buf,
                      [spikes_neurons EXCEPT ![PyIndex(idx, nb_neurons)] =
                          Append(@, time_step)])

\* the buckets of __reshape_buffer_from_nest; np.concatenate of a bucket of
\* two or more scalars raises ValueError
reshape_buffer_from_nest(count, size_buffer, buf) ==
    LET r == ReshapeFrom(0, Rint3(size_buffer), buf,
                         [i \in 1..nb_neurons |-> <<>>])
    IN  IF r.raised # "none" THEN r
        ELSE IF \E i \in 1..nb_neurons : Len(r.spikes_neurons[i]) > 1
        THEN [raised |-> "ValueError", spikes_neurons |-> r.spikes_neurons]
        ELSE r

\* times as computed; rate stands for the rates elephant computes from the
\* spike trains (the numerics are not modelled: the trains themselves)
transform(count, size_buffer, buf) ==
    LET r == reshape_buffer_from_nest(count, size_buffer, buf)
    IN  [raised |-> r.raised,
         times |-> <<count * time_synch, (count + 1) * time_synch>>,
         rate |-> r.spikes_neurons]

(***************************************************************************)
(* InterscaleHubBaseManager: the role lists and the group of a process     *)
(***************************************************************************)
MaxSize == 3        \* largest size of the process group (COMM_WORLD)
MaxListLen == 2     \* longest list of ranks handed to the constructor

\* range(n) as a list
Range(n) == [i \in 1..n |-> i - 1]

\* x in list
In(x, list) == \E i \in 1..Len(list) : list[i] = x

\* the elements of a list, as a set
Members(list) == {list[i] : i \in 1..Len(list)}

\* lists of ranks a caller may hand over: any ranks, repeated or not, one
\* rank beyond the largest group included
RankLists ==
    UNION {[1..n -> 0..MaxSize] : n \in 0..MaxListLen}

\* [x for x in range(size) if x not in (receiving + sending)]
group_of_ranks_for_transformation(size, receiving, sending) ==
    LET NotListed(x) == ~In(x, receiving \o sending)
    IN  SelectSeq(Range(size), NotListed)

\* a process of rank `rank` before its manager is constructed
Manager_new(rank, size, receiving, sending) ==
    [phase |-> "new", rank |-> rank, size |-> size,
     receiving_arg |-> receiving, sending_arg |-> sending,
     group_of_ranks_for_receiving |-> <<>>,
     group_of_ranks_for_sending |-> <<>>,
     group_of_ranks_for_transformation |-> <<>>,
     group |-> "none"]

\* __init__: the two lists are stored as given, the rest are transformers
Manager_init(m) ==
    [m EXCEPT !.phase = "initialized",
              !.group_of_ranks_for_receiving = m.receiving_arg,
              !.group_of_ranks_for_sending = m.sending_arg,
              !.group_of_ranks_for_transformation =
                  group_of_ranks_for_transformation(m.size, m.receiving_arg,
                                                    m.sending_arg)]

\* _setup_mpi_groups_and_comms: the if / elif / elif on the rank; list[0] of
\* an empty list raises IndexError
Manager_setup_mpi_groups_and_comms(m) ==
    LET receiving == m.group_of_ranks_for_receiving
        sending == m.group_of_ranks_for_sending
        g == IF receiving = <<>> THEN "IndexError"
             ELSE IF m.rank = receiving[1] THEN "receivers"
             ELSE IF sending = <<>> THEN "IndexError"
             ELSE IF m.rank = sending[1] THEN "senders"
             ELSE IF In(m.rank, m.group_of_ranks_for_transformation)
             THEN "transformers"
             ELSE "none"
    IN  [m EXCEPT !.phase = "set_up", !.group = g]

(***************************************************************************)
(* start() of the two communicators: the dispatch on the rank              *)
(***************************************************************************)
\* CommunicatorNestTvb.start: rank 0 receives, rank 1 sends, any other rank
\* falls through and returns None
CommunicatorNestTvb_startRest(rank) ==
    IF rank = 0 THEN "_receive" ELSE "_send"
CommunicatorNestTvb_start(rank) ==
    IF rank = 0 THEN "_receive" ELSE IF rank = 1 THEN "_send" ELSE "None"

\* CommunicatorTvbNest.start: rank 0 sends, rank 1 receives
CommunicatorTvbNest_start(rank) ==
    IF rank = 0 THEN "_send" ELSE IF rank = 1 THEN "_receive" ELSE "None"

Communicator_start(dir, rank) ==
    IF dir = "NEST_TO_TVB" THEN CommunicatorNestTvb_start(rank)
    ELSE CommunicatorTvbNest_start(rank)

\* what CommunicatorTvbNest.start has returned on a rank: the response of
\* the loop it ran, once that has returned; None where no branch of the
\* if / elif was taken; "no_return" while the loop runs, after it raised,
\* and before start() is called
CommunicatorTvbNest_start_response(rank) ==
    CASE procs[rank] = "_send" /\ eret \in {"OK", "ERROR"} -> eret
      [] procs[rank] = "_receive" /\ rret \in {"OK", "ERROR"} -> rret
      [] procs[rank] = "None" -> "None"
      [] OTHER -> "no_return"

\* TvbToNestManager.start: ERROR if the communicator's start() == ERROR,
\* else OK
TvbToNestManager_start(rank) ==
    LET response == CommunicatorTvbNest_start_response(rank)
    IN  IF response = "no_return" THEN "no_return"
        ELSE IF response = "ERROR" THEN "ERROR"
        ELSE "OK"

\* no rank of a group of `size` has called start() yet
NotStarted(size) == [rank \in 0..(size - 1) |-> "not_started"]

(***************************************************************************)
(* TvbToNestManager: the two intercomms of a rank, from the channel set-up *)
(* to stop().  A link is "unset" (the attribute is not assigned yet),      *)
(* "None", "open" or "closed".                                             *)
(***************************************************************************)
Link_new == [phase |-> "new", input_comm |-> "unset", output_comm |-> "unset"]

\* __data_channel_setup: rank 0 opens the output link and holds the input
\* link as None, every other rank the other way round
data_channel_setup(rank, l) ==
    IF rank = 0
    THEN [l EXCEPT !.phase = "set_up", !.output_comm = "open",
                   !.input_comm = "None"]
    ELSE [l EXCEPT !.phase = "set_up", !.input_comm = "open",
                   !.output_comm = "None"]

\* start(): the communicator has run and returned
Link_started(l) == [l EXCEPT !.phase = "started"]

\* stop(), first statement: self.__tvb_nest_communicator.stop()
Link_communicator_stopped(l) == [l EXCEPT !.phase = "communicator_stopped"]

\* stop(): the link handed to close_and_finalize, by rank
stop_closes_output(rank) == "output_comm"
stop_closes(rank) == IF rank = 0 THEN "output_comm" ELSE "input_comm"

\* close_and_finalize(comm, port): disconnects an open intercomm and
\* releases its port; a comm that is None cannot be disconnected
close_and_finalize(l, which) ==
    IF l[which] = "open"
    THEN [l EXCEPT !.phase = "closed", ![which] = "closed"]
    ELSE [l EXCEPT !.phase = "close_failed"]

(***************************************************************************)
(* ElephantDelegator: calls routed by name to one of two objects           *)
(***************************************************************************)
\* names the two classes may define
MethodNames == {"spikes_to_rate", "rate_to_spike", "analyse", "_helper"}

\* f.startswith('_')
startswith_underscore(f) == f = "_helper"

\* [f for f in dir(cls) if not f.startswith('_')]
public_methods(dir_cls) == {f \in dir_cls : ~startswith_underscore(f)}

\* __init__: the two objects and the two lists of names; nothing looked up
ElephantDelegator_init(dir_SpikeRateConvertor, dir_ElephantPlugin) ==
    [dir_SpikeRateConvertor |-> dir_SpikeRateConvertor,
     dir_ElephantPlugin |-> dir_ElephantPlugin,
     spikerate_methods |-> public_methods(dir_SpikeRateConvertor),
     plugin_methods |-> public_methods(dir_ElephantPlugin),
     phase |-> "initialised", func |-> "", forwarded_to |-> "none",
     raised |-> "none"]

\* the delegator of a run: the convertor converts, the plugin analyses
ElephantDelegator_constructed ==
    ElephantDelegator_init({"spikes_to_rate", "rate_to_spike", "_helper"},
                           {"analyse"})

\* __getattr__(func): returns the closure `method`, whatever the name
ElephantDelegator_getattr(dl, func) ==
    [dl EXCEPT !.phase = "looked_up", !.func = func,
               !.forwarded_to = "none", !.raised = "none"]

\* method(*args): the if / elif / else on the name
ElephantDelegator_methodPluginFirst(dl) ==
    IF dl.func \in dl.plugin_methods
    THEN [dl EXCEPT !.phase = "called", !.forwarded_to = "elephant_plugin"]
    ELSE IF dl.func \in dl.spikerate_methods
    THEN [dl EXCEPT !.phase = "called",
                    !.forwarded_to = "spike_rate_conversion"]
    ELSE [dl EXCEPT !.phase = "called", !.raised = "AttributeError"]
ElephantDelegator_method(dl) ==
    IF dl.func \in dl.spikerate_methods
    THEN [dl EXCEPT !.phase = "called",
                    !.forwarded_to = "spike_rate_conversion"]
    ELSE IF dl.func \in dl.plugin_methods
    THEN [dl EXCEPT !.phase = "called", !.forwarded_to = "elephant_plugin"]
    ELSE [dl EXCEPT !.phase = "called", !.raised = "AttributeError"]

(***************************************************************************)
(* TvbToNestManager.__get_path_to_spike_generators: NEST writes            *)
(* spike_generator.txt, a table of ids with one row per transformer, then  *)
(* the .unlock file; the manager polls for .unlock, loads the table and    *)
(* names one handshake file per generator of its row                       *)
(***************************************************************************)
MaxRows == 2        \* rows (transformers) of spike_generator.txt
MaxCols == 3        \* columns (generators of a transformer)
MaxPolls == 2       \* polls that find no .unlock (counted up to this bound)
transformer_id == 0 \* the row of this transformer

\* the tables NEST may write: rows of consecutive ids
SpikeGeneratorTables ==
    {[r \in 1..rows |-> [j \in 1..cols |-> first + (r - 1) * cols + j - 1]] :
        rows \in 1..MaxRows, cols \in 1..MaxCols, first \in {1, 7}}

\* np.loadtxt(file, dtype=int): axes of length one are squeezed, so a table
\* of one row or of one column comes back with one dimension and a single
\* number with none
np_loadtxt(table) ==
    LET rows == Len(table)
        cols == Len(table[1])
    IN  IF rows = 1 /\ cols = 1 THEN [ndim |-> 0, a |-> table[1][1]]
        ELSE IF rows = 1 THEN [ndim |-> 1, a |-> table[1]]
        ELSE IF cols = 1 THEN [ndim |-> 1, a |-> [r \in 1..rows |-> table[r][1]]]
        ELSE [ndim |-> 2, a |-> table]

\* if len(spike_generator.shape) < 2: np.expand_dims(spike_generator, 0)
expand_dims(x) ==
    IF x.ndim < 2 THEN [ndim |-> x.ndim + 1, a |-> <<x.a>>] ELSE x

\* id_first_spike_generator = spike_generator[transformer_id][0], the
\* number of generators len(spike_generator[transformer_id]), and the names
\* str(id_first_spike_generator + i) for i in range(nb_spike_generators);
\* indexing a number raises IndexError
path_to_spike_generators(x) ==
    IF x.ndim < 2 \/ transformer_id + 1 > Len(x.a)
    THEN [raised |-> "IndexError", paths |-> <<>>]
    ELSE LET row == x.a[transformer_id + 1]
             id_first_spike_generator == row[1]
         IN  [raised |-> "none",
              paths |-> [i \in 1..Len(row) |->
                            id_first_spike_generator + (i - 1)]]

\* before NEST has written anything and before the manager looks
Files_new ==
    [pc |-> "poll", table |-> <<>>, unlock |-> FALSE, polls |-> 0,
     spike_generator |-> [ndim |-> 0, a |-> 0], raised |-> "none",
     paths |-> <<>>]

\* the whole of __get_path_to_spike_generators once .unlock is there
Files_read(f) ==
    LET x == expand_dims(np_loadtxt(f.table))
        p == path_to_spike_generators(x)
    IN  [f EXCEPT !.pc = "done", !.spike_generator = x, !.raised = p.raised,
                  !.paths = p.paths]

(***************************************************************************)
(* Initial state                                                           *)
(***************************************************************************)
recv0 == [running_head |-> 0, status_rank_0 |-> 0, tag |-> 0, i |-> 0,
          source |-> 0, shape |-> 0, count |-> 0, size |-> 0]

emit0 == [count |-> 0, tag |-> 0, source |-> 0, size |-> 0,
          times |-> <<>>, data |-> <<>>, rank |-> 0, size_list |-> 0,
          list_id |-> <<>>, spikes_times |-> <<>>]

\* deposits: times the receive loop has set the state cell to "transform";
\* step_shapes: the shapes (sizes) announced in the payload step under way
\* or last finished; transforms: calls of the transformer that have ended;
\* rearms: times the emit loop has set the state cell to "receive";
\* rearm_deposits: the value of deposits at the last of these;
\* recv_ops, emit_ops: what each loop has done, in order, since it last
\* left its busy-wait (<<what, peer, tag>>), emptied when it loops back;
\* ready_rounds: rounds of readiness messages the TVB->NEST receive loop has
\* completed; times_received: times messages it has received
hist0 == [deposits |-> 0, step_shapes |-> <<>>, transforms |-> 0,
          rearms |-> 0, rearm_deposits |-> 0, recv_ops |-> <<>>,
          emit_ops |-> <<>>, ready_rounds |-> 0, times_received |-> 0]

\* A loop that goes round again reads none of the locals of the finished
\* iteration before it has assigned them anew (status_, shape, size, times,
\* data, list_id, ... are all set by the next Recv or call): the model
\* forgets them at the loop-back
RecvForget(r) ==
    [r EXCEPT !.status_rank_0 = 0, !.tag = 0, !.i = 0, !.source = 0,
              !.shape = 0, !.size = 0]

EmitForget(e) ==
    [e EXCEPT !.tag = 0, !.source = 0, !.size = 0, !.times = <<>>,
              !.data = <<>>, !.rank = 0, !.size_list = 0, !.list_id = <<>>,
              !.spikes_times = <<>>]

\* One operation of a rank on its communicator: op is "Recv" or "Send" (or
\* "none" for a step that touches no communicator), peer the remote rank,
\* tag the MPI tag, what the variable the message carries, data its content
Wire(rank, op, peer, tag, what, data) ==
    [rank |-> rank, op |-> op, peer |-> peer, tag |-> tag, what |-> what,
     data |-> data]

Local(rank) == Wire(rank, "none", 0, 0, "", <<>>)

\* InterscaleHubBaseManager._set_initial_buffer_state(state, buffer_type)
set_initial_buffer_state(buf, state) == set_ready_state_at(buf, -1, state)

\* NEST -> TVB: the manager arms the buffer before the two loops start
InitNestTvb ==
    /\ direction = "NEST_TO_TVB"
    /\ buffer = set_initial_buffer_state(create_mpi_shared_memory_buffer,
                                         READY_TO_RECEIVE)
    /\ rpc = "r_recv_tag0"
    /\ epc = "e_wait_demand"

\* TVB -> NEST: the manager creates the buffer and starts the communicator;
\* _receive itself arms the buffer
InitTvbNest ==
    /\ direction = "TVB_TO_NEST"
    /\ buffer = create_mpi_shared_memory_buffer
    /\ rpc = "t_init_ready"
    /\ epc = "te_recv_tag"

\* the rest of the state after construction
InitLoops ==
    /\ InitNestTvb \/ InitTvbNest
    /\ recv = recv0
    /\ emit = emit0
    /\ rret = "RUNNING"
    /\ eret = "RUNNING"
    /\ hist = hist0
    /\ wire = Local("")
    /\ stopped = "not_called"

\* the manager has read the table of one row that names the
\* nb_spike_generators generators
FilesRead ==
    Files_read([Files_new EXCEPT
        !.unlock = TRUE,
        !.table = <<[j \in 1..nb_spike_generators |->
                        id_first_spike_detector + j - 1]>>])

\* a group of MaxSize ranks, one receiving rank and one sending rank; the
\* manager of rank 0 constructed and its groups set up; every rank has
\* called start()
Init ==
    /\ mgr = Manager_setup_mpi_groups_and_comms(
                 Manager_init(Manager_new(0, MaxSize, <<0>>, <<1>>)))
    /\ InitLoops
    /\ deleg = ElephantDelegator_constructed
    /\ procs = [rank \in 0..(MaxSize - 1) |->
                   Communicator_start(direction, rank)]
    /\ links = [rank \in 0..(MaxSize - 1) |->
                   Link_started(data_channel_setup(rank, Link_new))]
    /\ files = FilesRead

(***************************************************************************)
(* What the simulators may send.  A simulator offers at most MaxSteps      *)
(* payload steps (tag 0) in a run; NEST offers at most MaxSkips skip steps *)
(* (tag 1).                                                                *)
(***************************************************************************)
UpstreamMaySend(tag) ==
    /\ tag = 0 => hist.deposits < MaxSteps
    /\ (tag = 1 /\ direction = "NEST_TO_TVB") => recv.count < MaxSkips

DownstreamMayDemand(tag) ==
    tag = 0 => hist.transforms < MaxSteps

\* shapes a NEST rank may announce: whole spikes that still fit the payload
\* cells of the buffer
AnnouncedShapes(running_head) ==
    {3 * n : n \in {m \in 0..MaxSpikes : running_head + 3 * m <= max_events}}

\* sizes TVB may announce: rate samples that fit behind the two times
AnnouncedSizes == {n \in 0..MaxRates : 2 + n <= max_events}

\* what a peer that does not know the capacity of the buffer may announce
AnyShapes == 0..(B + 1)
AnySizes == 0..(max_events + 1)

(***************************************************************************)
(* NEST -> TVB, receive loop: CommunicatorNestTvb._receive                 *)
(***************************************************************************)
\* top of the while loop: running_head = 0
NT_receive_LoopTopNoReset(r) == r
NT_receive_LoopTop(r) == [r EXCEPT !.running_head = 0]

\* elif status_.Get_tag() == 1: count += 1; continue
NT_receive_AfterSkipAsStep == "r_wait"
NT_receive_AfterSkip == "r_recv_tag0"

\* the if / elif chain on status_.Get_tag()
NT_receive_Dispatch(r) ==
    CASE r.tag = 0 ->
            /\ rpc' = "r_wait"
            /\ recv' = r
            /\ rret' = rret
      [] r.tag = 1 ->
            /\ rpc' = NT_receive_AfterSkip
            /\ recv' = NT_receive_LoopTop(RecvForget([r EXCEPT !.count = @ + 1]))
            /\ rret' = rret
      [] r.tag = 2 ->
            /\ rpc' = "r_done"
            /\ recv' = r
            /\ rret' = "OK"
      [] OTHER ->
            /\ rpc' = "r_done"
            /\ recv' = r
            /\ rret' = "ERROR"

\* Recv of the control byte of NEST rank 0
NT_receive_RecvTagRank0 ==
    /\ direction = "NEST_TO_TVB"
    /\ rpc = "r_recv_tag0"
    /\ \E tag \in Tags :
        /\ UpstreamMaySend(tag)
        /\ wire' = Wire("receive", "Recv", 0, tag, "check", <<>>)
        /\ LET r == [recv EXCEPT !.status_rank_0 = tag, !.tag = tag, !.i = 1]
           IN  IF 1 < NumNest
               THEN rpc' = "r_recv_tags" /\ recv' = r /\ rret' = rret
               ELSE NT_receive_Dispatch(r)
    /\ UNCHANGED <<mgr, procs, links, files, stopped, deleg, direction, buffer, epc, emit, eret, hist>>

\* if status_rank_0 != status_.Get_tag()
NT_receive_TagsNeverDiffer(status_rank_0, tag) == FALSE
NT_receive_TagsDiffer(status_rank_0, tag) == status_rank_0 # tag

\* Recv of the control byte of NEST rank i >= 1, compared with rank 0's
NT_receive_RecvTagRankI ==
    /\ direction = "NEST_TO_TVB"
    /\ rpc = "r_recv_tags"
    /\ \E tag \in Tags :
        /\ wire' = Wire("receive", "Recv", recv.i, tag, "check", <<>>)
        /\ LET r == [recv EXCEPT !.tag = tag, !.i = @ + 1]
           IN  IF NT_receive_TagsDiffer(recv.status_rank_0, tag)
               THEN rpc' = "r_done" /\ recv' = r /\ rret' = "ERROR"
               ELSE IF r.i < NumNest
               THEN rpc' = "r_recv_tags" /\ recv' = r /\ rret' = rret
               ELSE NT_receive_Dispatch(r)
    /\ UNCHANGED <<mgr, procs, links, files, stopped, deleg, direction, buffer, epc, emit, eret, hist>>

\* what follows the busy-wait: for source in range(num_sending): Send ...
NT_receive_AfterWaitNoGoAhead == "r_recv_shape"
NT_receive_AfterWait == "r_send_go"

\* the busy-wait on the state cell is left
NT_receive_WaitReady ==
    /\ direction = "NEST_TO_TVB"
    /\ rpc = "r_wait"
    /\ get_at(buffer, -1) = READY_TO_RECEIVE
    /\ rpc' = NT_receive_AfterWait
    /\ recv' = [recv EXCEPT !.source = 0]
    /\ hist' = [hist EXCEPT !.step_shapes = <<>>,
                            !.recv_ops = <<<<"observed", 0, 0>>>>]
    /\ wire' = Local("receive")
    /\ UNCHANGED <<mgr, procs, links, files, stopped, deleg, direction, buffer, rret, epc, emit, eret>>

\* Send of the go-ahead to NEST rank source
NT_receive_SendGoAhead ==
    /\ direction = "NEST_TO_TVB"
    /\ rpc = "r_send_go"
    /\ rpc' = "r_recv_shape"
    /\ wire' = Wire("receive", "Send", recv.source, 0, "go_ahead", <<>>)
    /\ hist' = [hist EXCEPT !.recv_ops = Append(@, <<"go_ahead", recv.source, 0>>)]
    /\ UNCHANGED <<mgr, procs, links, files, stopped, deleg, direction, buffer, recv, rret, epc, emit, eret>>

\* Recv of the shape NEST rank source announces
NT_receive_RecvShape ==
    /\ direction = "NEST_TO_TVB"
    /\ rpc = "r_recv_shape"
    /\ \E shape \in AnnouncedShapes(recv.running_head) :
        /\ recv' = [recv EXCEPT !.shape = shape]
        /\ wire' = Wire("receive", "Recv", recv.source, 0, "shape", <<shape>>)
        /\ hist' = [hist EXCEPT !.step_shapes = Append(@, shape),
                                !.recv_ops = Append(@, <<"shape", recv.source, 0>>)]
    /\ rpc' = "r_recv_payload"
    /\ UNCHANGED <<mgr, procs, links, files, stopped, deleg, direction, buffer, rret, epc, emit, eret>>

\* Recv of the shape, from a NEST rank that announces what it likes
NT_receive_RecvShapeAny ==
    /\ direction = "NEST_TO_TVB"
    /\ rpc = "r_recv_shape"
    /\ \E shape \in AnyShapes :
        /\ recv' = [recv EXCEPT !.shape = shape]
        /\ wire' = Wire("receive", "Recv", recv.source, 0, "shape", <<shape>>)
        /\ hist' = [hist EXCEPT !.step_shapes = Append(@, shape),
                                !.recv_ops = Append(@, <<"shape", recv.source, 0>>)]
    /\ rpc' = "r_recv_payload"
    /\ UNCHANGED <<mgr, procs, links, files, stopped, deleg, direction, buffer, rret, epc, emit, eret>>

\* where the loop over the NEST ranks goes after the payload of rank source
NT_receive_AfterPayloadFirstOnly(source) == "r_set_state"
NT_receive_AfterPayload(source) ==
    IF source + 1 < NumNest THEN "r_send_go" ELSE "r_set_state"

\* running_head += shape[0]
NT_receive_HeadKept(running_head, shape) == running_head
NT_receive_NextHead(running_head, shape) == running_head + shape

\* Recv of the payload into the buffer at running_head; running_head += shape
NT_receive_RecvPayload ==
    /\ direction = "NEST_TO_TVB"
    /\ rpc = "r_recv_payload"
    /\ LET msg == SpikeFloats(hist.deposits + 1, recv.source, recv.shape)
       IN  /\ wire' = Wire("receive", "Recv", recv.source, 0, "data", msg)
           /\ IF Fits(recv.running_head, recv.shape)
              THEN /\ buffer' = RecvInto(buffer, recv.running_head, msg)
                   /\ recv' = [recv EXCEPT
                                 !.running_head =
                                     NT_receive_NextHead(@, recv.shape),
                                 !.source = @ + 1]
                   /\ rpc' = NT_receive_AfterPayload(recv.source)
                   /\ rret' = rret
              ELSE /\ buffer' \in Truncated(buffer, recv.running_head, msg)
                   /\ recv' = recv
                   /\ rpc' = "r_done"
                   /\ rret' = "RAISED"
    /\ hist' = [hist EXCEPT !.recv_ops = Append(@, <<"data", recv.source, 0>>)]
    /\ UNCHANGED <<mgr, procs, links, files, stopped, deleg, direction, epc, emit, eret>>

\* set_ready_state_at(index=-1, state=READY_TO_TRANSFORM)
NT_receive_SetReadyToTransform ==
    /\ direction = "NEST_TO_TVB"
    /\ rpc = "r_set_state"
    /\ buffer' = set_ready_state_at(buffer, -1, READY_TO_TRANSFORM)
    /\ hist' = [hist EXCEPT !.deposits = @ + 1]
    /\ rpc' = "r_set_header"
    /\ wire' = Local("receive")
    /\ UNCHANGED <<mgr, procs, links, files, stopped, deleg, direction, recv, rret, epc, emit, eret>>

\* set_header_at(index=-2, header=running_head), then continue
NT_receive_SetHeader ==
    /\ direction = "NEST_TO_TVB"
    /\ rpc = "r_set_header"
    /\ buffer' = set_header_at(buffer, -2, recv.running_head)
    /\ recv' = NT_receive_LoopTop(RecvForget(recv))
    /\ rpc' = "r_recv_tag0"
    /\ wire' = Local("receive")
    /\ hist' = [hist EXCEPT !.recv_ops = <<>>]
    /\ UNCHANGED <<mgr, procs, links, files, stopped, deleg, direction, rret, epc, emit, eret>>

(***************************************************************************)
(* NEST -> TVB, emit loop: CommunicatorNestTvb._send                       *)
(***************************************************************************)
\* what _send returns on a tag other than 0: elif tag == 1 ... else ...
NT_send_ResponseAlwaysOk(tag) == "OK"
NT_send_Response(tag) == IF tag = 1 THEN "OK" ELSE "ERROR"

\* irecv(ANY_SOURCE, ANY_TAG) and wait, then the if / elif on the tag
NT_send_WaitDemand ==
    /\ direction = "NEST_TO_TVB"
    /\ epc = "e_wait_demand"
    /\ \E tag \in Tags, source \in 0..(NumTvb - 1) :
        /\ DownstreamMayDemand(tag)
        /\ emit' = [emit EXCEPT !.tag = tag, !.source = source]
        /\ wire' = Wire("emit", "Recv", source, tag, "demand", <<>>)
        /\ IF tag = 0
           THEN epc' = "e_wait" /\ eret' = eret
           ELSE epc' = "e_done" /\ eret' = NT_send_Response(tag)
    /\ UNCHANGED <<mgr, procs, links, files, stopped, deleg, direction, buffer, rpc, recv, rret, hist>>

\* the condition that ends the busy-wait of _send
NT_send_NoWait == TRUE
NT_send_BufferReady == get_at(buffer, -1) = READY_TO_TRANSFORM

NT_send_WaitTransform ==
    /\ direction = "NEST_TO_TVB"
    /\ epc = "e_wait"
    /\ NT_send_BufferReady
    /\ epc' = "e_read_size"
    /\ wire' = Local("emit")
    /\ hist' = [hist EXCEPT !.emit_ops = <<<<"observed", 0, 0>>>>]
    /\ UNCHANGED <<mgr, procs, links, files, stopped, deleg, direction, buffer, rpc, recv, rret, emit, eret>>

\* mediator.spikes_to_rate(count, size_at_index=-2): the header is read
NT_send_ReadSize ==
    /\ direction = "NEST_TO_TVB"
    /\ epc = "e_read_size"
    /\ emit' = [emit EXCEPT !.size = get_at(buffer, -2)]
    /\ epc' = "e_transform"
    /\ wire' = Local("emit")
    /\ UNCHANGED <<mgr, procs, links, files, stopped, deleg, direction, buffer, rpc, recv, rret, eret, hist>>

\* ... and the transformer reads the payload
NT_send_Transform ==
    /\ direction = "NEST_TO_TVB"
    /\ epc = "e_transform"
    /\ LET t == transform(emit.count, emit.size, buffer)
       IN  IF t.raised # "none"
           THEN /\ epc' = "e_done"
                /\ eret' = "RAISED"
                /\ emit' = emit
           ELSE /\ epc' = "e_set_ready"
                /\ eret' = eret
                /\ emit' = [emit EXCEPT !.times = t.times, !.data = t.rate]
    /\ hist' = [hist EXCEPT !.transforms = @ + 1,
                            !.emit_ops = Append(@, <<"spikes_to_rate", 0, 0>>)]
    /\ wire' = Local("emit")
    /\ UNCHANGED <<mgr, procs, links, files, stopped, deleg, direction, buffer, rpc, recv, rret>>

\* set_ready_state_at(index=-1, state=READY_TO_RECEIVE)
NT_send_SetReadyToReceiveSkipped ==
    /\ direction = "NEST_TO_TVB"
    /\ epc = "e_set_ready"
    /\ hist' = [hist EXCEPT !.rearms = @ + 1,
                            !.rearm_deposits = hist.deposits,
                            !.emit_ops = Append(@, <<"set_state", 0, 0>>)]
    /\ epc' = "e_send_times"
    /\ wire' = Local("emit")
    /\ UNCHANGED <<mgr, procs, links, files, stopped, deleg, direction, buffer, rpc, recv, rret, emit, eret>>
NT_send_SetReadyToReceive ==
    /\ direction = "NEST_TO_TVB"
    /\ epc = "e_set_ready"
    /\ buffer' = set_ready_state_at(buffer, -1, READY_TO_RECEIVE)
    /\ hist' = [hist EXCEPT !.rearms = @ + 1,
                            !.rearm_deposits = hist.deposits,
                            !.emit_ops = Append(@, <<"set_state", 0, 0>>)]
    /\ epc' = "e_send_times"
    /\ wire' = Local("emit")
    /\ UNCHANGED <<mgr, procs, links, files, stopped, deleg, direction, rpc, recv, rret, emit, eret>>

\* Send of times to the rank that issued the demand
NT_send_SendTimes ==
    /\ direction = "NEST_TO_TVB"
    /\ epc = "e_send_times"
    /\ epc' = "e_send_size"
    /\ wire' = Wire("emit", "Send", emit.source, 0, "times", emit.times)
    /\ hist' = [hist EXCEPT !.emit_ops = Append(@, <<"times", emit.source, 0>>)]
    /\ UNCHANGED <<mgr, procs, links, files, stopped, deleg, direction, buffer, rpc, recv, rret, emit, eret>>

\* Send of the size of the rates
NT_send_SendSize ==
    /\ direction = "NEST_TO_TVB"
    /\ epc = "e_send_size"
    /\ epc' = "e_send_rates"
    /\ wire' = Wire("emit", "Send", emit.source, 0, "size", <<Len(emit.data)>>)
    /\ hist' = [hist EXCEPT !.emit_ops = Append(@, <<"size", emit.source, 0>>)]
    /\ UNCHANGED <<mgr, procs, links, files, stopped, deleg, direction, buffer, rpc, recv, rret, emit, eret>>

\* the rates that are sent: the local `data` spikes_to_rate returned
NT_send_RatesReread(e, buf) == transform(e.count, get_at(buf, -2), buf).rate
NT_send_Rates(e, buf) == e.data

\* count += 1 after the three sends
NT_send_CountKept(count) == count
NT_send_NextCount(count) == count + 1

\* Send of the rates; count += 1; continue
NT_send_SendRates ==
    /\ direction = "NEST_TO_TVB"
    /\ epc = "e_send_rates"
    /\ emit' = EmitForget([emit EXCEPT !.count = NT_send_NextCount(@)])
    /\ epc' = "e_wait_demand"
    /\ wire' = Wire("emit", "Send", emit.source, 0, "data",
                    NT_send_Rates(emit, buffer))
    /\ hist' = [hist EXCEPT !.emit_ops = <<>>]
    /\ UNCHANGED <<mgr, procs, links, files, stopped, deleg, direction, buffer, rpc, recv, rret, eret>>

NextNestTvb ==
    \/ NT_receive_RecvTagRank0
    \/ NT_receive_RecvTagRankI
    \/ NT_receive_WaitReady
    \/ NT_receive_SendGoAhead
    \/ NT_receive_RecvShape
    \/ NT_receive_RecvPayload
    \/ NT_receive_SetReadyToTransform
    \/ NT_receive_SetHeader
    \/ NT_send_WaitDemand
    \/ NT_send_WaitTransform
    \/ NT_send_ReadSize
    \/ NT_send_Transform
    \/ NT_send_SetReadyToReceive
    \/ NT_send_SendTimes
    \/ NT_send_SendSize
    \/ NT_send_SendRates

(***************************************************************************)
(* TVB -> NEST, receive loop: CommunicatorTvbNest._receive                 *)
(***************************************************************************)
\* set_ready_at(index=-1), before the loop
TN_receive_SetReady ==
    /\ direction = "TVB_TO_NEST"
    /\ rpc = "t_init_ready"
    /\ buffer' = set_ready_at(buffer, -1)
    /\ rpc' = "t_init_head"
    /\ wire' = Local("receive")
    /\ UNCHANGED <<mgr, procs, links, files, stopped, deleg, direction, recv, rret, epc, emit, eret, hist>>

\* set_head_at(index=-2), before the loop
TN_receive_SetHead ==
    /\ direction = "TVB_TO_NEST"
    /\ rpc = "t_init_head"
    /\ buffer' = set_head_at(buffer, -2)
    /\ rpc' = "t_isend"
    /\ wire' = Local("receive")
    /\ UNCHANGED <<mgr, procs, links, files, stopped, deleg, direction, recv, rret, epc, emit, eret, hist>>

\* where an iteration of the while loop starts
TN_receive_LoopTopNoAnnounce == "t_recv_times"
TN_receive_LoopTop == "t_isend"

\* isend(True, tag=0) to every TVB rank (the message names them all),
\* Waitall
TN_receive_AnnounceReady ==
    /\ direction = "TVB_TO_NEST"
    /\ rpc = "t_isend"
    /\ rpc' = "t_recv_times"
    /\ wire' = Wire("receive", "Send", NumTvb - 1, 0, "ready", Range(NumTvb))
    /\ hist' = [hist EXCEPT !.ready_rounds = @ + 1]
    /\ UNCHANGED <<mgr, procs, links, files, stopped, deleg, direction, buffer, recv, rret, epc, emit, eret>>

\* Recv of the times into the buffer at 0, any tag; then the if / elif on
\* the tag
TN_receive_RecvTimes ==
    /\ direction = "TVB_TO_NEST"
    /\ rpc = "t_recv_times"
    /\ \E tag \in Tags :
        /\ UpstreamMaySend(tag)
        /\ recv' = [recv EXCEPT !.tag = tag, !.source = 0]
        /\ wire' = Wire("receive", "Recv", 0, tag, "times",
                        TimesMsg(hist.deposits + 1))
        /\ CASE tag = 0 -> rpc' = "t_wait" /\ rret' = rret
             [] tag = 1 -> rpc' = "t_done" /\ rret' = "OK"
             [] OTHER -> rpc' = "t_done" /\ rret' = "ERROR"
    /\ buffer' = RecvInto(buffer, 0, TimesMsg(hist.deposits + 1))
    /\ hist' = [hist EXCEPT !.times_received = @ + 1]
    /\ UNCHANGED <<mgr, procs, links, files, stopped, deleg, direction, epc, emit, eret>>

\* the busy-wait on the state cell is left
TN_receive_WaitReady ==
    /\ direction = "TVB_TO_NEST"
    /\ rpc = "t_wait"
    /\ get_at(buffer, -1) = READY
    /\ rpc' = "t_recv_size"
    /\ wire' = Local("receive")
    /\ UNCHANGED <<mgr, procs, links, files, stopped, deleg, direction, buffer, recv, rret, epc, emit, eret, hist>>

\* Recv of the size of the rate array
TN_receive_RecvSize ==
    /\ direction = "TVB_TO_NEST"
    /\ rpc = "t_recv_size"
    /\ \E size \in AnnouncedSizes :
        /\ recv' = [recv EXCEPT !.size = size]
        /\ wire' = Wire("receive", "Recv", recv.source, 0, "size", <<size>>)
        /\ hist' = [hist EXCEPT !.step_shapes = <<size>>]
    /\ rpc' = "t_recv_rates"
    /\ UNCHANGED <<mgr, procs, links, files, stopped, deleg, direction, buffer, rret, epc, emit, eret>>

\* Recv of the size, from a TVB that announces what it likes
TN_receive_RecvSizeAny ==
    /\ direction = "TVB_TO_NEST"
    /\ rpc = "t_recv_size"
    /\ \E size \in AnySizes :
        /\ recv' = [recv EXCEPT !.size = size]
        /\ wire' = Wire("receive", "Recv", recv.source, 0, "size", <<size>>)
        /\ hist' = [hist EXCEPT !.step_shapes = <<size>>]
    /\ rpc' = "t_recv_rates"
    /\ UNCHANGED <<mgr, procs, links, files, stopped, deleg, direction, buffer, rret, epc, emit, eret>>

\* Recv of the rates into the buffer at 2
TN_receive_RecvRates ==
    /\ direction = "TVB_TO_NEST"
    /\ rpc = "t_recv_rates"
    /\ LET msg == RateMsg(hist.deposits + 1, recv.size)
       IN  /\ wire' = Wire("receive", "Recv", recv.source, 0, "data", msg)
           /\ IF Fits(2, recv.size)
              THEN /\ buffer' = RecvInto(buffer, 2, msg)
                   /\ rpc' = "t_set_head"
                   /\ rret' = rret
              ELSE /\ buffer' \in Truncated(buffer, 2, msg)
                   /\ rpc' = "t_done"
                   /\ rret' = "RAISED"
    /\ UNCHANGED <<mgr, procs, links, files, stopped, deleg, direction, recv, epc, emit, eret, hist>>

\* set_head_at(index=-1)
TN_receive_SetHeadState ==
    /\ direction = "TVB_TO_NEST"
    /\ rpc = "t_set_head"
    /\ buffer' = set_head_at(buffer, -1)
    /\ hist' = [hist EXCEPT !.deposits = @ + 1]
    /\ rpc' = "t_set_size"
    /\ wire' = Local("receive")
    /\ UNCHANGED <<mgr, procs, links, files, stopped, deleg, direction, recv, rret, epc, emit, eret>>

\* set_custom_value_at(index=-2, value=size), then continue
TN_receive_SetSize ==
    /\ direction = "TVB_TO_NEST"
    /\ rpc = "t_set_size"
    /\ buffer' = set_custom_value_at(buffer, -2, recv.size)
    /\ recv' = RecvForget(recv)
    /\ rpc' = TN_receive_LoopTop
    /\ wire' = Local("receive")
    /\ UNCHANGED <<mgr, procs, links, files, stopped, deleg, direction, rret, epc, emit, eret, hist>>

(***************************************************************************)
(* TVB -> NEST, emit loop: CommunicatorTvbNest._send                       *)
(***************************************************************************)
\* mediator.rate_to_spike(): the first two cells are the times, the cells
\* from 2 up to the header are the rates (all of them when the header is 0);
\* every generator gets a spike train drawn by the Poisson generator, here
\* an empty train or one spike in the window, at a time of the generator's
\* own (t_start for the first, t_start + 1 for the second, ...)
RatesRead(buf) ==
    IF get_at(buf, -2) = 0
    THEN SubSeq(buf, 3, B)
    ELSE SubSeq(buf, 3, IF get_at(buf, -2) > B THEN B ELSE get_at(buf, -2))

rate_to_spike(buf, lens) ==
    [g \in 1..nb_spike_generators |-> [j \in 1..lens[g] |-> buf[1] + g - 1]]

\* the loop over the NEST ranks after rank e.rank is served: the next rank,
\* or the next iteration of the while loop
TN_send_AfterRankPcFirstOnly(e) == "te_recv_tag"
TN_send_AfterRankPc(e) ==
    IF e.rank + 1 < NumNest THEN "te_recv_k" ELSE "te_recv_tag"

TN_send_AfterRank(e) ==
    IF e.rank + 1 < NumNest
    THEN [e EXCEPT !.rank = @ + 1, !.size_list = 0, !.list_id = <<>>]
    ELSE EmitForget(e)

\* Recv of the control byte of NEST rank `rank`; after the last rank, the
\* if / elif on the tag of the last Recv
TN_send_RecvTag ==
    /\ direction = "TVB_TO_NEST"
    /\ epc = "te_recv_tag"
    /\ \E tag \in Tags :
        /\ DownstreamMayDemand(tag)
        /\ wire' = Wire("emit", "Recv", emit.rank, tag, "check", <<>>)
        /\ IF emit.rank + 1 < NumNest
           THEN /\ emit' = [emit EXCEPT !.tag = tag, !.source = emit.rank,
                                        !.rank = @ + 1]
                /\ epc' = "te_recv_tag"
                /\ eret' = eret
           ELSE LET e == [emit EXCEPT !.tag = tag, !.source = emit.rank,
                                      !.rank = 0]
                IN  CASE tag = 0 ->
                            emit' = e /\ epc' = "te_wait" /\ eret' = eret
                      [] tag = 1 ->
                            /\ emit' = EmitForget(e)
                            /\ epc' = "te_recv_tag"
                            /\ eret' = eret
                      [] tag = 2 ->
                            emit' = e /\ epc' = "te_done" /\ eret' = "OK"
                      [] OTHER ->
                            emit' = e /\ epc' = "te_done" /\ eret' = "ERROR"
    /\ UNCHANGED <<mgr, procs, links, files, stopped, deleg, direction, buffer, rpc, recv, rret, hist>>

\* the busy-wait on the state cell is left
TN_send_WaitHead ==
    /\ direction = "TVB_TO_NEST"
    /\ epc = "te_wait"
    /\ get_at(buffer, -1) = HEAD
    /\ epc' = "te_transform"
    /\ wire' = Local("emit")
    /\ UNCHANGED <<mgr, procs, links, files, stopped, deleg, direction, buffer, rpc, recv, rret, emit, eret, hist>>

\* spikes_times = mediator.rate_to_spike()
TN_send_RateToSpike ==
    /\ direction = "TVB_TO_NEST"
    /\ epc = "te_transform"
    /\ \E lens \in [1..nb_spike_generators -> 0..1] :
        emit' = [emit EXCEPT !.size = get_at(buffer, -2),
                             !.times = SubSeq(buffer, 1, 2),
                             !.data = RatesRead(buffer),
                             !.spikes_times = rate_to_spike(buffer, lens)]
    /\ hist' = [hist EXCEPT !.transforms = @ + 1]
    /\ epc' = "te_set_ready"
    /\ wire' = Local("emit")
    /\ UNCHANGED <<mgr, procs, links, files, stopped, deleg, direction, buffer, rpc, recv, rret, eret>>

\* set_ready_at(index=-1)
TN_send_SetReady ==
    /\ direction = "TVB_TO_NEST"
    /\ epc = "te_set_ready"
    /\ buffer' = set_ready_at(buffer, -1)
    /\ emit' = [emit EXCEPT !.rank = 0]
    /\ hist' = [hist EXCEPT !.rearms = @ + 1,
                            !.rearm_deposits = hist.deposits]
    /\ epc' = "te_recv_k"
    /\ wire' = Local("emit")
    /\ UNCHANGED <<mgr, procs, links, files, stopped, deleg, direction, rpc, recv, rret, eret>>

\* Recv of size_list from NEST rank `rank`; nothing more for a rank that
\* asks for no generator
TN_send_RecvSizeList ==
    /\ direction = "TVB_TO_NEST"
    /\ epc = "te_recv_k"
    /\ \E k \in 0..MaxIds :
        /\ wire' = Wire("emit", "Recv", emit.rank, 0, "size_list", <<k>>)
        /\ IF k = 0
           THEN /\ emit' = TN_send_AfterRank(emit)
                /\ epc' = TN_send_AfterRankPc(emit)
           ELSE /\ emit' = [emit EXCEPT !.size_list = k, !.source = emit.rank]
                /\ epc' = "te_recv_ids"
    /\ UNCHANGED <<mgr, procs, links, files, stopped, deleg, direction, buffer, rpc, recv, rret, eret, hist>>

\* Recv of list_id: size_list ids of spike generators
TN_send_RecvListId ==
    /\ direction = "TVB_TO_NEST"
    /\ epc = "te_recv_ids"
    /\ \E ids \in [1..emit.size_list ->
                     id_first_spike_detector ..
                         (id_first_spike_detector + nb_spike_generators - 1)] :
        /\ emit' = [emit EXCEPT !.list_id = ids]
        /\ wire' = Wire("emit", "Recv", emit.source, 0, "list_id", ids)
    /\ epc' = "te_send_shape"
    /\ UNCHANGED <<mgr, procs, links, files, stopped, deleg, direction, buffer, rpc, recv, rret, eret, hist>>

\* data += [spikes_times[i - id_first_spike_detector]] for i in list_id
TN_send_TrainsFirstOnly(e) ==
    [j \in 1..Len(e.list_id) |-> e.spikes_times[1]]
TN_send_Trains(e) ==
    [j \in 1..Len(e.list_id) |->
        e.spikes_times[e.list_id[j] - id_first_spike_detector + 1]]

\* np.concatenate(([np.sum(shape)], shape))
TN_send_Shape(e) ==
    LET shape == [j \in 1..Len(e.list_id) |-> Len(TN_send_Trains(e)[j])]
    IN  <<SumSeq(shape)>> \o shape

\* np.concatenate(data)
RECURSIVE Concatenate(_)
Concatenate(data) ==
    IF data = <<>> THEN <<>> ELSE Head(data) \o Concatenate(Tail(data))

\* Send of send_shape, tag list_id[0]
TN_send_SendShape ==
    /\ direction = "TVB_TO_NEST"
    /\ epc = "te_send_shape"
    /\ epc' = "te_send_data"
    /\ wire' = Wire("emit", "Send", emit.source, emit.list_id[1], "send_shape",
                    TN_send_Shape(emit))
    /\ UNCHANGED <<mgr, procs, links, files, stopped, deleg, direction, buffer, rpc, recv, rret, emit, eret, hist>>

\* Send of the concatenated spike trains, tag list_id[0]; next rank
TN_send_SendData ==
    /\ direction = "TVB_TO_NEST"
    /\ epc = "te_send_data"
    /\ wire' = Wire("emit", "Send", emit.rank, emit.list_id[1], "data",
                    Concatenate(TN_send_Trains(emit)))
    /\ emit' = TN_send_AfterRank(emit)
    /\ epc' = TN_send_AfterRankPc(emit)
    /\ UNCHANGED <<mgr, procs, links, files, stopped, deleg, direction, buffer, rpc, recv, rret, eret, hist>>

NextTvbNest ==
    \/ TN_receive_SetReady
    \/ TN_receive_SetHead
    \/ TN_receive_AnnounceReady
    \/ TN_receive_RecvTimes
    \/ TN_receive_WaitReady
    \/ TN_receive_RecvSize
    \/ TN_receive_RecvRates
    \/ TN_receive_SetHeadState
    \/ TN_receive_SetSize
    \/ TN_send_RecvTag
    \/ TN_send_WaitHead
    \/ TN_send_RateToSpike
    \/ TN_send_SetReady
    \/ TN_send_RecvSizeList
    \/ TN_send_RecvListId
    \/ TN_send_SendShape
    \/ TN_send_SendData

Next == NextNestTvb \/ NextTvbNest

Spec == Init /\ [][Next]_vars

\* the same program with peers that announce any shape or size
NextAnyShape ==
    \/ Next
    \/ NT_receive_RecvShapeAny
    \/ TN_receive_RecvSizeAny

SpecAnyShape == Init /\ [][NextAnyShape]_vars

(***************************************************************************)
(* NEST -> TVB with peers that follow the protocol and ranks that keep     *)
(* running: NEST sends MaxSteps steps with tag 0, the same tag from every  *)
(* rank, then tag 2; TVB issues MaxSteps demands with tag 0, then tag 1.   *)
(* Each of the two ranks of the bridge is a process of its own that the    *)
(* operating system keeps scheduling: weak fairness of each.               *)
(***************************************************************************)
PeersFollowProtocol ==
    /\ wire'.what = "check" =>
          wire'.tag = (IF hist.deposits < MaxSteps THEN 0 ELSE 2)
    /\ wire'.what = "demand" =>
          wire'.tag = (IF emit.count < MaxSteps THEN 0 ELSE 1)

InitFair == Init /\ direction = "NEST_TO_TVB"

NextFair == NextNestTvb /\ PeersFollowProtocol

ReceiveRankStep == NextFair /\ wire'.rank = "receive"
EmitRankStep == NextFair /\ wire'.rank = "emit"

SpecFair ==
    /\ InitFair
    /\ [][NextFair]_vars
    /\ WF_vars(ReceiveRankStep)
    /\ WF_vars(EmitRankStep)

(***************************************************************************)
(* The construction of the manager on its own: any group size, any rank of *)
(* the group, any two lists of ranks                                       *)
(***************************************************************************)
InitRoles ==
    /\ \E size \in 1..MaxSize, receiving \in RankLists, sending \in RankLists :
         \E rank \in 0..(size - 1) :
            /\ mgr = Manager_new(rank, size, receiving, sending)
            /\ procs = NotStarted(size)
            /\ links = [r \in 0..(size - 1) |-> Link_new]
    /\ files = Files_new
    /\ InitLoops
    /\ deleg = ElephantDelegator_constructed

Roles_init ==
    /\ mgr.phase = "new"
    /\ mgr' = Manager_init(mgr)
    /\ UNCHANGED <<procs, links, files, stopped, deleg, direction, buffer, rpc, recv, rret,
                   epc, emit, eret, hist, wire>>

Roles_setup_mpi_groups_and_comms ==
    /\ mgr.phase = "initialized"
    /\ mgr' = Manager_setup_mpi_groups_and_comms(mgr)
    /\ UNCHANGED <<procs, links, files, stopped, deleg, direction, buffer, rpc, recv, rret,
                   epc, emit, eret, hist, wire>>

NextRoles == Roles_init \/ Roles_setup_mpi_groups_and_comms

SpecRoles == InitRoles /\ [][NextRoles]_vars

(***************************************************************************)
(* The intercomms of the TVB -> NEST manager on their own: any group size; *)
(* each rank sets up its channel, starts, and stops                        *)
(***************************************************************************)
InitChannels ==
    /\ \E size \in 1..MaxSize :
            /\ mgr = Manager_setup_mpi_groups_and_comms(
                         Manager_init(Manager_new(0, size, <<0>>, <<1>>)))
            /\ procs = NotStarted(size)
            /\ links = [r \in 0..(size - 1) |-> Link_new]
    /\ files = FilesRead
    /\ InitLoops
    /\ deleg = ElephantDelegator_constructed
    /\ direction = "TVB_TO_NEST"

Channels_frame ==
    UNCHANGED <<mgr, files, stopped, deleg, direction, buffer, rpc, recv, rret, epc, emit, eret,
                hist, wire>>

Channels_data_channel_setup ==
    \E rank \in DOMAIN links :
        /\ links[rank].phase = "new"
        /\ links' = [links EXCEPT ![rank] = data_channel_setup(rank, @)]
        /\ procs' = procs
        /\ Channels_frame

Channels_start ==
    \E rank \in DOMAIN links :
        /\ links[rank].phase = "set_up"
        /\ links' = [links EXCEPT ![rank] = Link_started(@)]
        /\ procs' = [procs EXCEPT ![rank] = Communicator_start(direction, rank)]
        /\ Channels_frame

Channels_stop_communicator ==
    \E rank \in DOMAIN links :
        /\ links[rank].phase = "started"
        /\ links' = [links EXCEPT ![rank] = Link_communicator_stopped(@)]
        /\ procs' = procs
        /\ Channels_frame

Channels_stop_close ==
    \E rank \in DOMAIN links :
        /\ links[rank].phase = "communicator_stopped"
        /\ links' = [links EXCEPT
                        ![rank] = close_and_finalize(@, stop_closes(rank))]
        /\ procs' = procs
        /\ Channels_frame

NextChannels ==
    \/ Channels_data_channel_setup
    \/ Channels_start
    \/ Channels_stop_communicator
    \/ Channels_stop_close

SpecChannels == InitChannels /\ [][NextChannels]_vars

(***************************************************************************)
(* NEST -> TVB with a manager that may call the communicator's stop() at   *)
(* any moment, while the loops run or after they have returned             *)
(***************************************************************************)
\* CommunicatorNestTvb.stop: raises NotImplementedError, catches it, logs,
\* and returns Response.OK
CommunicatorNestTvb_stop_uncaught == "NotImplementedError"
CommunicatorNestTvb_stop == "OK"

NT_stop ==
    /\ direction = "NEST_TO_TVB"
    /\ stopped' = CommunicatorNestTvb_stop
    /\ UNCHANGED <<mgr, procs, links, files, deleg, direction, buffer, rpc, recv,
                   rret, epc, emit, eret, hist, wire>>

InitStop == Init /\ direction = "NEST_TO_TVB"

NextStop == NextNestTvb \/ NT_stop

SpecStop == InitStop /\ [][NextStop]_vars

(***************************************************************************)
(* The delegator on its own: two classes that define any of the names, and *)
(* a caller that looks up any name and calls what it got                   *)
(***************************************************************************)
InitDelegator ==
    /\ \E dir_SpikeRateConvertor \in SUBSET MethodNames,
          dir_ElephantPlugin \in SUBSET MethodNames :
            deleg = ElephantDelegator_init(dir_SpikeRateConvertor,
                                           dir_ElephantPlugin)
    /\ mgr = Manager_new(0, MaxSize, <<0>>, <<1>>)
    /\ procs = NotStarted(MaxSize)
    /\ links = [r \in 0..(MaxSize - 1) |-> Link_new]
    /\ files = Files_new
    /\ InitNestTvb
    /\ recv = recv0
    /\ emit = emit0
    /\ rret = "RUNNING"
    /\ eret = "RUNNING"
    /\ hist = hist0
    /\ wire = Local("")
    /\ stopped = "not_called"

Delegator_frame ==
    UNCHANGED <<mgr, procs, links, files, stopped, direction, buffer, rpc,
                recv, rret, epc, emit, eret, hist, wire>>

\* delegator.<func>
Delegator_getattr ==
    /\ deleg.phase \in {"initialised", "called"}
    /\ \E func \in MethodNames : deleg' = ElephantDelegator_getattr(deleg, func)
    /\ Delegator_frame

\* delegator.<func>(...)
Delegator_call ==
    /\ deleg.phase = "looked_up"
    /\ deleg' = ElephantDelegator_method(deleg)
    /\ Delegator_frame

NextDelegator == Delegator_getattr \/ Delegator_call

SpecDelegator == InitDelegator /\ [][NextDelegator]_vars

(***************************************************************************)
(* The manager waiting for NEST's table on its own: NEST writes any table  *)
(* and then the .unlock file, at any moment                                *)
(***************************************************************************)
InitFiles ==
    /\ files = Files_new
    /\ mgr = Manager_new(0, MaxSize, <<0>>, <<1>>)
    /\ procs = NotStarted(MaxSize)
    /\ links = [r \in 0..(MaxSize - 1) |-> Link_new]
    /\ InitLoops
    /\ deleg = ElephantDelegator_constructed
    /\ direction = "TVB_TO_NEST"

Files_frame ==
    UNCHANGED <<mgr, procs, links, stopped, deleg, direction, buffer, rpc, recv, rret, epc,
                emit, eret, hist, wire>>

\* NEST writes spike_generator.txt
Files_nest_writes ==
    /\ files.table = <<>>
    /\ \E table \in SpikeGeneratorTables :
          files' = [files EXCEPT !.table = table]
    /\ Files_frame

\* NEST creates spike_generator.txt.unlock, the table being complete
Files_nest_unlocks ==
    /\ files.table # <<>>
    /\ ~files.unlock
    /\ files' = [files EXCEPT !.unlock = TRUE]
    /\ Files_frame

\* while not os.path.exists(... '.unlock'): sleep(1)
Files_poll_retry ==
    /\ files.pc = "poll"
    /\ ~files.unlock
    /\ files.polls < MaxPolls
    /\ files' = [files EXCEPT !.polls = @ + 1]
    /\ Files_frame

\* the poll that finds .unlock ends the loop
Files_poll_found ==
    /\ files.pc = "poll"
    /\ files.unlock
    /\ files' = [files EXCEPT !.pc = "load"]
    /\ Files_frame

\* np.loadtxt, expand_dims, and the list of paths
Files_load ==
    /\ files.pc = "load"
    /\ files' = Files_read(files)
    /\ Files_frame

NextFiles ==
    \/ Files_nest_writes
    \/ Files_nest_unlocks
    \/ Files_poll_retry
    \/ Files_poll_found
    \/ Files_load

SpecFiles == InitFiles /\ [][NextFiles]_vars

(***************************************************************************)
(* start() on its own: any group size, any two lists of ranks, either      *)
(* direction; the ranks call start() in any order                          *)
(***************************************************************************)
InitStart ==
    /\ \E size \in 1..MaxSize, receiving \in RankLists, sending \in RankLists :
            /\ mgr = Manager_setup_mpi_groups_and_comms(
                         Manager_init(Manager_new(0, size, receiving,
                                                  sending)))
            /\ procs = NotStarted(size)
            /\ links = [r \in 0..(size - 1) |->
                           data_channel_setup(r, Link_new)]
    /\ files = FilesRead
    /\ InitLoops
    /\ deleg = ElephantDelegator_constructed

Start_rank ==
    \E rank \in DOMAIN procs :
        /\ procs[rank] = "not_started"
        /\ procs' = [procs EXCEPT ![rank] = Communicator_start(direction, rank)]
        /\ UNCHANGED <<mgr, links, files, stopped, deleg, direction, buffer, rpc, recv, rret, epc,
                       emit, eret, hist, wire>>

NextStart == Start_rank

SpecStart == InitStart /\ [][NextStart]_vars

(***************************************************************************)
(* Properties                                                              *)
(***************************************************************************)
StateCell == get_at(buffer, -1)
HeaderCell == get_at(buffer, -2)

ReadyState == IF direction = "NEST_TO_TVB" THEN READY_TO_RECEIVE ELSE READY
TransformState == IF direction = "NEST_TO_TVB" THEN READY_TO_TRANSFORM ELSE HEAD

\* the receive rank is between leaving its busy-wait and setting the state
NT_InReceivePayload ==
    /\ direction = "NEST_TO_TVB"
    /\ rpc \in {"r_send_go", "r_recv_shape", "r_recv_payload", "r_set_state"}

\* the emit rank is between leaving its busy-wait and re-arming the state
NT_InTransform ==
    /\ direction = "NEST_TO_TVB"
    /\ epc \in {"e_read_size", "e_transform", "e_set_ready"}

\* the step in which the receive loop sets the state cell to "transform"
RecvSetsTransform == rpc \in {"r_set_state", "t_set_head"} /\ rpc' # rpc

\* the step in which the emit loop sets the state cell to "receive"
EmitSetsReady == epc \in {"e_set_ready", "te_set_ready"} /\ epc' # epc

\* the step that ends the handling of a tag-0 demand by the emit loop
EmitFinishesStep ==
    /\ epc \in {"e_send_rates", "te_recv_k", "te_send_data"}
    /\ epc' \in {"e_wait_demand", "te_recv_tag"}

\* the payload the NEST ranks 0, 1, ... send in one step, in rank order
RECURSIVE SpikesOf(_, _, _)
SpikesOf(step, shapes, source) ==
    IF source >= Len(shapes) THEN <<>>
    ELSE SpikeMsg(step, source, shapes[source + 1] \div 3)
             \o SpikesOf(step, shapes, source + 1)

\* C1: NEST->TVB: the emit rank is in its transform (the only read of the
\* payload) only while the state cell holds READY_TO_TRANSFORM, set by the
\* receive rank for the step the emit rank is handling; the receive rank is
\* in its payload receives only while the cell holds READY_TO_RECEIVE; the
\* two ranks are never in these two regions at the same time.
C1_PayloadExclusion ==
    /\ NT_InTransform =>
          StateCell = READY_TO_TRANSFORM /\ hist.deposits = emit.count + 1
    /\ NT_InReceivePayload => StateCell = READY_TO_RECEIVE
    /\ ~(NT_InReceivePayload /\ NT_InTransform)

\* the emit rank transforms step 1 while the receive rank, holding step 2,
\* is kept in its busy-wait
C1_Witness ==
    /\ direction = "NEST_TO_TVB"
    /\ epc = "e_transform"
    /\ rpc = "r_wait"
    /\ hist.deposits = 1
    /\ HeaderCell > 0

\* C2: NEST->TVB receive loop: the header cell holds running_head before the
\* state cell is set to READY_TO_TRANSFORM, so whenever the emit rank has
\* observed READY_TO_TRANSFORM the header is the sum announced in that step.
C2_HeaderBeforeState ==
    direction = "NEST_TO_TVB" =>
        /\ rpc = "r_set_header" => HeaderCell = recv.running_head
        /\ epc = "e_read_size" => HeaderCell = SumSeq(hist.step_shapes)

\* C3: in each direction the receive loop has written the whole payload of a
\* step when it sets the state cell to READY_TO_TRANSFORM (HEAD), and the
\* emit loop has finished the transform of a step when it sets the state
\* cell back to READY_TO_RECEIVE (READY).
C3_PayloadThenState ==
    [][ /\ RecvSetsTransform =>
              IF direction = "NEST_TO_TVB"
              THEN /\ Len(hist.step_shapes) = NumNest
                   /\ SubSeq(buffer, 1, SumSeq(hist.step_shapes))
                        = SpikesOf(hist.deposits + 1, hist.step_shapes, 0)
              ELSE /\ SubSeq(buffer, 1, 2) = TimesMsg(hist.deposits + 1)
                   /\ SubSeq(buffer, 3, 2 + recv.size)
                        = RateMsg(hist.deposits + 1, recv.size)
        /\ EmitSetsReady =>
              /\ hist.transforms = hist.rearms + 1
              /\ emit.times # <<>>
      ]_vars

\* the receive loop has set the state after the payloads of both NEST ranks
\* of a second step, and the emit loop has re-armed the cell once
C3_Witness ==
    /\ direction = "NEST_TO_TVB"
    /\ rpc = "r_set_header"
    /\ hist.deposits = 2
    /\ hist.step_shapes = <<3, 3>>
    /\ hist.rearms = 1

\* C4: TVB->NEST: the receive loop writes a payload cell of the buffer
\* (cells 0 and 1 included) only when the state cell is READY, never while
\* it is HEAD.
C4_NoWriteBeforeReady ==
    [][ (direction = "TVB_TO_NEST" /\ PayloadCells(buffer') # PayloadCells(buffer))
            => StateCell = READY ]_vars

\* C5: TVB->NEST receive loop: the header cell holds the received size
\* before the state cell is set to HEAD, so whenever the emit rank has
\* observed HEAD the header is the size received in that step.
C5_SizeBeforeHead ==
    direction = "TVB_TO_NEST" =>
        /\ rpc = "t_set_size" => HeaderCell = recv.size
        /\ (epc = "te_transform" /\ hist.deposits > 0) =>
              HeaderCell = SumSeq(hist.step_shapes)

\* C6: TVB->NEST: the state cell is READY and the header 0 when the emit
\* loop polls the state cell before any deposit, so the emit loop never
\* calls rate_to_spike before the first deposit of the receive loop.
C6_ReadyBeforeFirstPoll ==
    (direction = "TVB_TO_NEST" /\ hist.deposits = 0) =>
        /\ epc = "te_wait" => (StateCell = READY /\ HeaderCell = 0)
        /\ epc \notin {"te_transform", "te_set_ready"}

\* C7: the state cell alternates: the receive loop alone writes
\* READY_TO_TRANSFORM (HEAD) and only over READY_TO_RECEIVE (READY); during
\* the loops the emit loop alone writes READY_TO_RECEIVE (READY) and only
\* over READY_TO_TRANSFORM (HEAD).
C7_PingPong ==
    [][ /\ RecvSetsTransform => StateCell = ReadyState
        /\ EmitSetsReady => StateCell = TransformState
        /\ StateCell' # StateCell =>
              \/ RecvSetsTransform /\ StateCell' = TransformState
              \/ EmitSetsReady /\ StateCell' = ReadyState
              \/ rpc = "t_init_ready"
      ]_vars

\* C8: NEST->TVB: deposits minus transforms is 0 or 1, and the k-th
\* transform has read the header and the payload of the k-th deposit.
C8_OneStepInOrder ==
    direction = "NEST_TO_TVB" =>
        /\ hist.deposits - hist.transforms \in {0, 1}
        /\ epc = "e_set_ready" =>
              /\ hist.deposits = emit.count + 1
              /\ emit.size = SumSeq(hist.step_shapes)
              /\ \A i \in 1..nb_neurons :
                    \A j \in 1..Len(emit.data[i]) :
                        emit.data[i][j] = hist.deposits

\* C9 as stated: when the emit loop finishes a tag-0 demand the state cell
\* is READY_TO_RECEIVE (READY).
C9_ReadyAtEndOfStep ==
    [][ EmitFinishesStep => StateCell' = ReadyState ]_vars

\* C9 as amended: when the emit loop finishes a tag-0 demand the state cell
\* is READY_TO_RECEIVE (READY) if the receive loop has made no deposit since
\* the emit loop re-armed the cell in that step, and READY_TO_TRANSFORM
\* (HEAD) if it has.
C9_ReadyUnlessNextDeposit ==
    [][ EmitFinishesStep =>
            IF hist.deposits = hist.rearm_deposits
            THEN StateCell' = ReadyState
            ELSE StateCell' = TransformState ]_vars

\* the emit loop is about to finish a step and the receive loop has already
\* deposited the next one
C9_Witness ==
    /\ epc = "e_send_rates"
    /\ StateCell = READY_TO_TRANSFORM
    /\ hist.deposits = hist.rearm_deposits + 1

\* C10: NEST->TVB receive loop: the header written at index -2 is the sum of
\* the shapes the NEST ranks announced in that step, and running_head is 0
\* at the start of every step.
C10_HeaderIsSumOfShapes ==
    direction = "NEST_TO_TVB" =>
        /\ (rpc \in {"r_recv_tag0", "r_recv_tags", "r_wait", "r_done"}
                /\ hist.deposits >= 1) =>
              HeaderCell = SumSeq(hist.step_shapes)
        /\ rpc \in {"r_recv_tag0", "r_recv_tags", "r_wait"} =>
              recv.running_head = 0
        /\ rpc \in {"r_send_go", "r_recv_shape", "r_set_state", "r_set_header"} =>
              recv.running_head = SumSeq(hist.step_shapes)

\* a second step of 3 floats has been deposited after a first step of 6
\* floats (whose second spike is still in the buffer): the header is 3
C10_Witness ==
    /\ direction = "NEST_TO_TVB"
    /\ rpc = "r_recv_tag0"
    /\ hist.deposits = 2
    /\ hist.step_shapes = <<3, 0>>
    /\ HeaderCell = 3
    /\ buffer[6] = 1

\* C11: in every reachable state the header cell holds a value in
\* [0, B-2], whatever shapes (NEST->TVB) or sizes (TVB->NEST) the peers
\* announce.
C11_HeaderInRange == HeaderCell \in 0..(B - 2)

C13_AnyMismatchIsError ==
    [][ (direction = "TVB_TO_NEST" /\ epc = "te_recv_tag"
            /\ wire'.rank = "emit" /\ emit.rank > 0
            /\ wire'.tag # emit.tag) =>
          eret' = "ERROR" ]_vars

\* the receive (emit) loop has read the control tags of all the ranks it
\* polls in one step
RecvTagsCollected ==
    /\ wire'.rank = "receive"
    /\ wire'.what \in {"check", "times"}
    /\ rpc' # "r_recv_tags"

EmitTagsCollected ==
    /\ wire'.rank = "emit"
    /\ wire'.what \in {"check", "demand"}
    /\ ~(epc' = "te_recv_tag" /\ emit'.rank > 0)

C14_NT_receive ==
    (direction = "NEST_TO_TVB" /\ RecvTagsCollected
        /\ (wire'.tag \notin {0, 1, 2} \/ recv'.status_rank_0 \notin {0, 1, 2}))
      => rret' = "ERROR"

C14_NT_send ==
    (direction = "NEST_TO_TVB" /\ EmitTagsCollected /\ wire'.tag \notin {0, 1})
      => eret' = "ERROR"

C14_TN_receive ==
    (direction = "TVB_TO_NEST" /\ RecvTagsCollected /\ wire'.tag \notin {0, 1})
      => rret' = "ERROR"

C14_TN_send ==
    (direction = "TVB_TO_NEST" /\ EmitTagsCollected
        /\ (wire'.tag \notin {0, 1, 2}
              \/ (emit.rank > 0 /\ emit.tag \notin {0, 1, 2})))
      => eret' = "ERROR"

\* C14: each of the four loops returns ERROR when it has read a control tag
\* outside its accepted set (at the latest when it has read the tags of all
\* the ranks of that step), and a loop that has returned ERROR receives
\* nothing, sends nothing and writes nothing more.
C14_BadTagIsError ==
    [][ /\ C14_NT_receive
        /\ C14_NT_send
        /\ C14_TN_receive
        /\ C14_TN_send
        /\ rret = "ERROR" => wire'.rank # "receive"
        /\ eret = "ERROR" => wire'.rank # "emit"
      ]_vars

\* C15 as stated: a loop has returned OK if and only if the last control
\* tag it read is its termination tag (2, 1, 1, 2 for the NEST->TVB receive
\* and emit loops and the TVB->NEST receive and emit loops), and it has
\* returned ERROR only after a bad tag or a difference between the tags of
\* the peer ranks.
C15_OkIffLastTag ==
    /\ rret = "RUNNING" <=> rpc \notin {"r_done", "t_done"}
    /\ eret = "RUNNING" <=> epc \notin {"e_done", "te_done"}
    /\ rret = "OK" <=>
          \/ rpc = "r_done" /\ rret # "RAISED" /\ recv.tag = 2
          \/ rpc = "t_done" /\ rret # "RAISED" /\ recv.tag = 1
    /\ eret = "OK" <=>
          \/ epc = "e_done" /\ eret # "RAISED" /\ emit.tag = 1
          \/ epc = "te_done" /\ emit.tag = 2
    /\ rret = "ERROR" =>
          IF direction = "NEST_TO_TVB"
          THEN recv.tag \notin {0, 1, 2} \/ recv.tag # recv.status_rank_0
          ELSE recv.tag \notin {0, 1}
    /\ eret = "ERROR" =>
          IF direction = "NEST_TO_TVB"
          THEN emit.tag \notin {0, 1}
          ELSE emit.tag \notin {0, 1, 2}

\* C15 as amended: the same, but the NEST->TVB receive loop has returned OK
\* if and only if the last control tag it read is 2 and is also the tag of
\* NEST rank 0 in that step: when the tag it read last is 2 and rank 0's was
\* another one it has returned ERROR.
C15_OkIffAgreedLastTag ==
    /\ rret = "RUNNING" <=> rpc \notin {"r_done", "t_done"}
    /\ eret = "RUNNING" <=> epc \notin {"e_done", "te_done"}
    /\ rret = "OK" <=>
          \/ /\ rpc = "r_done" /\ rret # "RAISED"
             /\ recv.tag = 2 /\ recv.status_rank_0 = 2
          \/ rpc = "t_done" /\ rret # "RAISED" /\ recv.tag = 1
    /\ eret = "OK" <=>
          \/ epc = "e_done" /\ eret # "RAISED" /\ emit.tag = 1
          \/ epc = "te_done" /\ emit.tag = 2
    /\ rret = "ERROR" =>
          IF direction = "NEST_TO_TVB"
          THEN recv.tag \notin {0, 1, 2} \/ recv.tag # recv.status_rank_0
          ELSE recv.tag \notin {0, 1}
    /\ eret = "ERROR" =>
          IF direction = "NEST_TO_TVB"
          THEN emit.tag \notin {0, 1}
          ELSE emit.tag \notin {0, 1, 2}

\* after one deposited step NEST rank 0 has sent tag 0 and rank 1 tag 2:
\* the last tag read is the termination tag and the loop has returned ERROR
C15_Witness ==
    /\ direction = "NEST_TO_TVB"
    /\ rpc = "r_done"
    /\ rret = "ERROR"
    /\ recv.status_rank_0 = 0
    /\ recv.tag = 2
    /\ hist.deposits = 1

C16_NT_receive ==
    (direction = "NEST_TO_TVB" /\ RecvTagsCollected
        /\ (wire'.tag = 2 \/ recv'.status_rank_0 = 2))
      => rpc' = "r_done"

C16_NT_send ==
    (direction = "NEST_TO_TVB" /\ EmitTagsCollected /\ wire'.tag = 1)
      => epc' = "e_done"

C16_TN_receive ==
    (direction = "TVB_TO_NEST" /\ RecvTagsCollected /\ wire'.tag = 1)
      => rpc' = "t_done"

C16_TN_send ==
    (direction = "TVB_TO_NEST" /\ EmitTagsCollected
        /\ (wire'.tag = 2 \/ (emit.rank > 0 /\ emit.tag = 2)))
      => epc' = "te_done"

\* C16: termination is final: a loop that has read its termination tag
\* (2, 1, 1, 2 for the four loops) stops, at the latest when it has read the
\* tags of all the ranks of that step, and a loop that has stopped receives
\* nothing, sends nothing and writes nothing more.
C16_TerminationIsFinal ==
    [][ /\ C16_NT_receive
        /\ C16_NT_send
        /\ C16_TN_receive
        /\ C16_TN_send
        /\ rpc \in {"r_done", "t_done"} => wire'.rank # "receive"
        /\ epc \in {"e_done", "te_done"} => wire'.rank # "emit"
      ]_vars

\* what the receive loop does for the NEST ranks source, source + 1, ...,
\* n - 1 in a tag-0 step
RECURSIVE NT_StepOps(_, _)
NT_StepOps(source, n) ==
    IF source >= n THEN <<>>
    ELSE <<<<"go_ahead", source, 0>>, <<"shape", source, 0>>,
           <<"data", source, 0>>>> \o NT_StepOps(source + 1, n)

\* C17: NEST->TVB receive loop, tag-0 step: nothing is sent before the loop
\* has observed READY_TO_RECEIVE; then, rank by rank in increasing order,
\* it sends the go-ahead (tag 0), receives the shape and receives the
\* payload, the go-ahead of the next rank coming after the payload of the
\* rank before; the state cell holds READY_TO_RECEIVE all the while.
C17_GoAheadShapePayload ==
    direction = "NEST_TO_TVB" =>
        LET expected == <<<<"observed", 0, 0>>>> \o NT_StepOps(0, NumNest)
            done == hist.recv_ops
        IN  /\ Len(done) <= Len(expected)
            /\ done = SubSeq(expected, 1, Len(done))
            /\ rpc \in {"r_recv_tag0", "r_recv_tags", "r_wait"} => done = <<>>
            /\ rpc = "r_send_go" => Len(done) = 1 + 3 * recv.source
            /\ rpc = "r_recv_shape" => Len(done) = 2 + 3 * recv.source
            /\ rpc = "r_recv_payload" => Len(done) = 3 + 3 * recv.source
            /\ rpc \in {"r_set_state", "r_set_header"} => done = expected
            /\ rpc \in {"r_send_go", "r_recv_shape", "r_recv_payload",
                         "r_set_state"} => StateCell = READY_TO_RECEIVE

\* second tag-0 step: the payload of rank 0 is in, the go-ahead of rank 1
\* has just been sent
C17_Witness ==
    /\ direction = "NEST_TO_TVB"
    /\ rpc = "r_recv_shape"
    /\ recv.source = 1
    /\ hist.deposits = 1
    /\ recv.running_head = 3
    /\ wire.what = "go_ahead"
    /\ wire.peer = 1

\* the communicator and buffer operations of one tag-0 step of the
\* NEST->TVB emit loop for the demanding rank source
NT_EmitOps(source) ==
    <<<<"observed", 0, 0>>, <<"spikes_to_rate", 0, 0>>, <<"set_state", 0, 0>>,
      <<"times", source, 0>>, <<"size", source, 0>>>>

NT_InEmitSends == epc \in {"e_send_times", "e_send_size", "e_send_rates"}

\* C18: NEST->TVB emit loop, one tag-0 demand: the loop leaves its wait only
\* on READY_TO_TRANSFORM, then calls spikes_to_rate, then sets
\* READY_TO_RECEIVE, then sends times, the size of the rates and the rates,
\* these three and no other message, each with tag 0 to the rank that
\* issued the demand; what it sends is what spikes_to_rate returned, the
\* buffer being neither read nor written by the loop after the re-arm.
\* (A spikes_to_rate that raises ends the loop before the re-arm.)
C18_TransformRearmThreeSends ==
    [][ (direction = "NEST_TO_TVB" /\ wire'.rank = "emit") =>
          /\ epc = "e_wait_demand" => emit'.source = wire'.peer
          /\ epc = "e_wait" =>
                StateCell = READY_TO_TRANSFORM /\ epc' = "e_read_size"
          /\ epc \in {"e_wait", "e_read_size", "e_transform", "e_set_ready",
                       "e_send_times", "e_send_size"} =>
                emit'.source = emit.source
          /\ epc = "e_set_ready" =>
                /\ hist.emit_ops = SubSeq(NT_EmitOps(emit.source), 1, 2)
                /\ StateCell' = READY_TO_RECEIVE
                /\ epc' = "e_send_times"
          /\ epc = "e_send_times" =>
                /\ hist.emit_ops = SubSeq(NT_EmitOps(emit.source), 1, 3)
                /\ wire' = Wire("emit", "Send", emit.source, 0, "times",
                                emit.times)
          /\ epc = "e_send_size" =>
                /\ hist.emit_ops = SubSeq(NT_EmitOps(emit.source), 1, 4)
                /\ wire' = Wire("emit", "Send", emit.source, 0, "size",
                                <<Len(emit.data)>>)
          /\ epc = "e_send_rates" =>
                /\ hist.emit_ops = NT_EmitOps(emit.source)
                /\ wire' = Wire("emit", "Send", emit.source, 0, "data",
                                emit.data)
                /\ epc' = "e_wait_demand"
          /\ wire'.op = "Send" => NT_InEmitSends
          /\ NT_InEmitSends =>
                /\ wire'.op = "Send"
                /\ buffer' = buffer
                /\ emit'.count = emit.count \/ epc = "e_send_rates"
      ]_vars

\* the rates of the first step are about to be sent to TVB rank 1 while the
\* receive rank has already deposited the next step
C18_Witness ==
    /\ direction = "NEST_TO_TVB"
    /\ epc = "e_send_rates"
    /\ emit.source = 1
    /\ hist.emit_ops = NT_EmitOps(1)
    /\ hist.deposits = 2
    /\ hist.rearms = 1
    /\ StateCell = READY_TO_TRANSFORM
    /\ wire.rank = "receive"

\* C19: NEST->TVB, the step counter `count` of the emit loop starts at 0
\* and equals the number of tag-0 demands completely handled (the re-arms
\* done, less the one whose three sends are still under way); it changes
\* only in the step that sends the rates, by exactly +1, never in a step of
\* the receive rank (its skip steps count in a counter of their own), and
\* the times pair sent for the n-th demand is [n*T, (n+1)*T].
C19_CountIsStepsHandled ==
    /\ emit.count = 0
    /\ [][ direction = "NEST_TO_TVB" =>
             /\ emit.count = hist.rearms - (IF NT_InEmitSends THEN 1 ELSE 0)
             /\ emit'.count =
                   hist'.rearms - (IF NT_InEmitSends' THEN 1 ELSE 0)
             /\ emit'.count >= emit.count
             /\ (wire'.rank = "emit" /\ epc = "e_send_rates")
                   => emit'.count = emit.count + 1
             /\ ~(wire'.rank = "emit" /\ epc = "e_send_rates")
                   => emit'.count = emit.count
             /\ (wire'.rank = "emit" /\ wire'.what = "times")
                   => wire'.data = <<emit.count * time_synch,
                                     (emit.count + 1) * time_synch>>
          ]_vars

\* two demands handled, the second times pair was [T, 2T]; the receive
\* loop has gone through a skip step
C19_Witness ==
    /\ direction = "NEST_TO_TVB"
    /\ emit.count = 2
    /\ epc = "e_wait_demand"
    /\ wire.rank = "emit"
    /\ wire.what = "data"
    /\ recv.count = 1

R_recv == Members(mgr.group_of_ranks_for_receiving)
R_send == Members(mgr.group_of_ranks_for_sending)
R_xform == Members(mgr.group_of_ranks_for_transformation)

\* C20: once the manager is constructed, whatever the two lists it was
\* given, the three role sets are pairwise disjoint, their union is the
\* whole group 0..size-1 and the transformers are exactly the ranks in
\* neither list.
C20_RolesPartition ==
    mgr.phase # "new" =>
        /\ R_recv \cap R_send = {}
        /\ R_recv \cap R_xform = {}
        /\ R_send \cap R_xform = {}
        /\ R_recv \cup R_send \cup R_xform = 0..(mgr.size - 1)
        /\ R_xform = {x \in 0..(mgr.size - 1) : x \notin R_recv \cup R_send}

\* the ranks that run the receive loop, the emit loop
ReceiveRanks == {rank \in DOMAIN procs : procs[rank] = "_receive"}
EmitRanks == {rank \in DOMAIN procs : procs[rank] = "_send"}

\* C21: with two single-rank lists, in either direction, a rank that has
\* called start() runs the receive loop only if it is the rank of R_recv
\* and the emit loop only if it is the rank of R_send.
C21_DispatchFollowsLists ==
    (Len(mgr.group_of_ranks_for_receiving) = 1
        /\ Len(mgr.group_of_ranks_for_sending) = 1) =>
        /\ ReceiveRanks \subseteq R_recv
        /\ EmitRanks \subseteq R_send

C23_BothReturnOk == <>(rret = "OK" /\ eret = "OK")

\* the spike train selected for the j-th requested id: the train at index
\* id minus the first id (counted from 0)
C24_Selected(j) ==
    emit.spikes_times[(emit.list_id[j] - id_first_spike_detector) + 1]

\* c_1 + ... + c_j for the lengths c of the selected trains
RECURSIVE C24_Total(_)
C24_Total(j) == IF j = 0 THEN 0 ELSE C24_Total(j - 1) + Len(C24_Selected(j))

OpenLinks(rank) ==
    {which \in {"input_comm", "output_comm"} : links[rank][which] = "open"}

\* C25: stop() of the TVB->NEST manager closes a link only after the
\* communicator's stop(); each rank closes exactly the link it opened in
\* the channel set-up, rank 0 the output link and every other rank the
\* input link; no rank closes a link it holds as None; once every rank of a
\* group of two or more has stopped, both intercomms are closed and no
\* link is left open.
C25_StopClosesWhatWasOpened ==
    [][ \A rank \in DOMAIN links :
          /\ links'[rank].phase # "close_failed"
          /\ \A which \in {"input_comm", "output_comm"} :
                links'[rank][which] # links[rank][which] =>
                    \/ /\ links[rank].phase = "new"
                       /\ links'[rank][which] \in {"open", "None"}
                    \/ /\ links[rank].phase = "communicator_stopped"
                       /\ links[rank][which] = "open"
                       /\ links'[rank][which] = "closed"
                       /\ which = (IF rank = 0 THEN "output_comm"
                                   ELSE "input_comm")
          /\ links'[rank].phase = "closed" =>
                /\ OpenLinks(rank)' = {}
                /\ links'[rank].output_comm =
                      (IF rank = 0 THEN "closed" ELSE "None")
                /\ links'[rank].input_comm =
                      (IF rank = 0 THEN "None" ELSE "closed")
          /\ ((\A r \in DOMAIN links : links'[r].phase = "closed")
                 /\ Cardinality(DOMAIN links) >= 2) =>
                /\ \E r \in DOMAIN links : links'[r].output_comm = "closed"
                /\ \E r \in DOMAIN links : links'[r].input_comm = "closed"
      ]_vars

\* a group of three: every rank has stopped
C25_Witness ==
    /\ Cardinality(DOMAIN links) = 3
    /\ \A rank \in DOMAIN links : links[rank].phase = "closed"
    /\ links[0].output_comm = "closed"
    /\ links[1].input_comm = "closed"
    /\ links[2].input_comm = "closed"

\* the row of this transformer in the table NEST wrote
C26_Row == files.table[transformer_id + 1]

\* C26: the manager reads spike_generator.txt only after a poll has found
\* the .unlock file, however often it had to poll; the list of paths it
\* then returns has one entry per generator of the transformer's row,
\* named first id + i for i = 0 .. n - 1.
C26_UnlockThenOnePathPerGenerator ==
    /\ files.pc \in {"load", "done"} => files.unlock
    /\ files.pc = "done" =>
          /\ files.raised = "none"
          /\ Len(files.paths) = Len(C26_Row)
          /\ \A i \in 1..Len(C26_Row) : files.paths[i] = C26_Row[1] + (i - 1)

\* the receive loop takes the payload of a NEST rank into the buffer
NT_PayloadReceived ==
    /\ direction = "NEST_TO_TVB"
    /\ rpc = "r_recv_payload"
    /\ rpc' # rpc

\* C27: NEST->TVB receive loop: within one tag-0 step the payload of NEST
\* rank s goes to the buffer cells from the sum of the shapes of the ranks
\* before s up to, not including, that sum plus the shape of s, and to no
\* other cell: the segments follow each other in rank order from cell 0.
C27_SegmentsInRankOrder ==
    [][NT_PayloadReceived =>
        LET s == recv.source
            shapes == hist.step_shapes
            first == SumSeq(SubSeq(shapes, 1, s))
            last == SumSeq(SubSeq(shapes, 1, s + 1))
        IN  /\ Len(shapes) = s + 1
            /\ wire'.peer = s
            /\ Len(wire'.data) = shapes[s + 1]
            /\ s = 0 => first = 0
            /\ \A c \in 1..B :
                  buffer'[c] = IF first < c /\ c <= last
                               THEN wire'.data[c - first]
                               ELSE buffer[c]]_vars

\* second tag-0 step, one spike from each NEST rank: rank 0's is in the
\* cells 0..2, rank 1's in the cells 3..5
C27_Witness ==
    /\ direction = "NEST_TO_TVB"
    /\ rpc = "r_set_state"
    /\ hist.deposits = 1
    /\ hist.step_shapes = <<3, 3>>
    /\ SubSeq(buffer, 1, 3) = SpikeFloats(2, 0, 3)
    /\ SubSeq(buffer, 4, 6) = SpikeFloats(2, 1, 3)
    /\ wire.what = "data"
    /\ wire.peer = 1

\* the receive loop takes a payload into the buffer slice: the spikes of a
\* NEST rank, or the rates of TVB
PayloadReceived ==
    \/ NT_PayloadReceived
    \/ direction = "TVB_TO_NEST" /\ rpc = "t_recv_rates" /\ rpc' # rpc

\* C28: in both directions, whatever shape or size the peer announced, a
\* payload receive leaves the state cell (index -1) and the header cell
\* (index -2) as they were.
C28_PayloadKeepsControlCells ==
    [][PayloadReceived =>
          /\ get_at(buffer', -1) = get_at(buffer, -1)
          /\ get_at(buffer', -2) = get_at(buffer, -2)]_vars

\* the NEST->TVB receive loop reads the last control byte of a round in
\* which every NEST rank sent tag 1
NT_SkipRead ==
    /\ direction = "NEST_TO_TVB"
    /\ rpc \in {"r_recv_tag0", "r_recv_tags"}
    /\ wire'.rank = "receive"
    /\ wire'.peer = NumNest - 1
    /\ wire'.tag = 1
    /\ rpc = "r_recv_tags" => recv.status_rank_0 = 1

\* the TVB->NEST emit loop reads the control byte it dispatches on, tag 1
TN_SkipRead ==
    /\ direction = "TVB_TO_NEST"
    /\ epc = "te_recv_tag"
    /\ wire'.rank = "emit"
    /\ wire'.peer = NumNest - 1
    /\ wire'.tag = 1

\* C29: a skip step, tag 1 read from all NEST ranks by the NEST->TVB receive
\* loop or tag 1 read by the TVB->NEST emit loop, changes no cell of the
\* shared buffer, sends nothing, ends nothing, and leaves the loop at the
\* read of the next control tag.
C29_SkipLeavesBufferUntouched ==
    [][/\ NT_SkipRead =>
            /\ buffer' = buffer
            /\ wire'.op = "Recv"
            /\ rpc' = "r_recv_tag0"
            /\ rret' = rret
            /\ recv'.running_head = 0
       /\ TN_SkipRead =>
            /\ buffer' = buffer
            /\ wire'.op = "Recv"
            /\ epc' = "te_recv_tag"
            /\ emit'.rank = 0
            /\ eret' = eret]_vars

\* the receive loop has just skipped a step, with the spikes of an earlier
\* step still in the buffer and the transformation of them not yet done
C29_Witness ==
    /\ direction = "NEST_TO_TVB"
    /\ rpc = "r_recv_tag0"
    /\ wire.rank = "receive"
    /\ wire.what = "check"
    /\ wire.tag = 1
    /\ wire.peer = NumNest - 1
    /\ recv.count = 1
    /\ hist.deposits = 1
    /\ StateCell = READY_TO_TRANSFORM
    /\ HeaderCell = 6

\* C30: TVB->NEST receive loop: every iteration starts with one round of
\* readiness messages, (true, tag 0) to every TVB rank, completed before
\* the times message is received, whatever tag the times message then
\* carries; each times message is received after a round of its own, so
\* the rounds are as many as the times messages received.
C30_ReadyRoundPerTimesMessage ==
    [][direction = "TVB_TO_NEST" =>
        /\ (rpc = "t_isend" /\ rpc' # rpc) =>
              /\ wire' = Wire("receive", "Send", NumTvb - 1, 0, "ready",
                              Range(NumTvb))
              /\ rpc' = "t_recv_times"
              /\ hist.ready_rounds = hist.times_received
              /\ hist'.ready_rounds = hist.ready_rounds + 1
        /\ hist'.times_received # hist.times_received =>
              /\ rpc = "t_recv_times"
              /\ wire'.what = "times"
              /\ hist.ready_rounds = hist.times_received + 1
              /\ hist'.times_received = hist'.ready_rounds
        /\ (rpc = "t_recv_times" /\ rpc' # rpc) =>
              hist'.times_received = hist.times_received + 1
        /\ rpc' \notin {"t_init_ready", "t_init_head", "t_recv_times"} =>
              hist'.ready_rounds = hist'.times_received]_vars

\* the termination tag has come with the third times message, after two
\* steps: three rounds of readiness messages
C30_Witness ==
    /\ direction = "TVB_TO_NEST"
    /\ rpc = "t_done"
    /\ rret = "OK"
    /\ hist.deposits = MaxSteps
    /\ hist.ready_rounds = MaxSteps + 1
    /\ hist.times_received = MaxSteps + 1

\* C31: TVB->NEST emit loop, tag-0 step: the state cell is set to READY,
\* and only then, for every NEST rank r in turn, the loop receives one
\* integer k from r; with k = 0 nothing is sent to r; with k > 0 it
\* receives the k ids from r and sends two messages, the sizes and then the
\* times, both to r with the first requested id as tag.
C31_PerRankExchange ==
    [][(direction = "TVB_TO_NEST" /\ wire'.rank = "emit") =>
          /\ epc = "te_set_ready" =>
                /\ get_at(buffer', -1) = READY
                /\ wire'.op = "none"
                /\ epc' = "te_recv_k"
                /\ emit'.rank = 0
          /\ epc = "te_recv_k" =>
                /\ wire'.op = "Recv" /\ wire'.what = "size_list"
                /\ wire'.peer = emit.rank /\ wire'.tag = 0
                /\ Len(wire'.data) = 1
                /\ wire'.data[1] = 0 =>
                      /\ epc' \in {"te_recv_k", "te_recv_tag"}
                      /\ epc' = "te_recv_k" => emit'.rank = emit.rank + 1
                      /\ epc' = "te_recv_tag" => emit.rank = NumNest - 1
                /\ wire'.data[1] > 0 =>
                      /\ epc' = "te_recv_ids"
                      /\ emit'.rank = emit.rank
                      /\ emit'.size_list = wire'.data[1]
          /\ epc = "te_recv_ids" =>
                /\ wire'.op = "Recv" /\ wire'.what = "list_id"
                /\ wire'.peer = emit.rank /\ wire'.tag = 0
                /\ Len(wire'.data) = emit.size_list
                /\ emit'.list_id = wire'.data
                /\ emit'.rank = emit.rank
                /\ epc' = "te_send_shape"
          /\ epc = "te_send_shape" =>
                /\ wire'.op = "Send" /\ wire'.what = "send_shape"
                /\ wire'.peer = emit.rank /\ wire'.tag = emit.list_id[1]
                /\ emit' = emit
                /\ epc' = "te_send_data"
          /\ epc = "te_send_data" =>
                /\ wire'.op = "Send" /\ wire'.what = "data"
                /\ wire'.peer = emit.rank /\ wire'.tag = emit.list_id[1]
                /\ epc' \in {"te_recv_k", "te_recv_tag"}
                /\ epc' = "te_recv_k" => emit'.rank = emit.rank + 1
                /\ epc' = "te_recv_tag" => emit.rank = NumNest - 1
          /\ (epc' = "te_recv_k" /\ emit'.rank = 0) => epc = "te_set_ready"
          /\ wire'.op = "Send" => epc \in {"te_send_shape", "te_send_data"}
      ]_vars

\* the last NEST rank, which asked for the second generator, has been sent
\* both messages with that id as tag, and the loop is back at the control
\* tags with the state cell READY
C31_Witness ==
    /\ direction = "TVB_TO_NEST"
    /\ epc = "te_recv_tag"
    /\ wire.rank = "emit"
    /\ wire.op = "Send"
    /\ wire.what = "data"
    /\ wire.peer = NumNest - 1
    /\ wire.tag = id_first_spike_detector + 1
    /\ StateCell = READY
    /\ hist.rearms = 1

\* the two lists name ranks of the group, no rank twice
C32_ListsNameEachRankOnce ==
    LET listed == mgr.group_of_ranks_for_receiving
                      \o mgr.group_of_ranks_for_sending
    IN  /\ \A i \in 1..Len(listed) : listed[i] \in 0..(mgr.size - 1)
        /\ \A i, j \in 1..Len(listed) : listed[i] = listed[j] => i = j

\* C32: group formation: whatever the receiver and sender lists (here: any
\* two lists that name ranks of the group, no rank twice), a rank that has
\* set up its groups has entered the creation of the role group of the set
\* that contains it, so that every member of a role group enters the
\* collective creation of that group and it completes.
C32_EveryMemberCreatesItsGroup ==
    (mgr.phase = "set_up" /\ C32_ListsNameEachRankOnce) =>
        /\ mgr.rank \in R_recv => mgr.group = "receivers"
        /\ mgr.rank \in R_send => mgr.group = "senders"
        /\ mgr.rank \in R_xform => mgr.group = "transformers"

\* C33: TvbToNestManager.start() returns ERROR on a rank exactly when the
\* loop of that rank returned ERROR, and returns OK on a rank only when
\* that rank ran a loop and the loop returned OK at its termination tag.
C33_StartReportsTheLoop ==
    direction = "TVB_TO_NEST" =>
        \A rank \in DOMAIN procs :
            /\ TvbToNestManager_start(rank) = "ERROR" <=>
                  \/ procs[rank] = "_send" /\ eret = "ERROR"
                  \/ procs[rank] = "_receive" /\ rret = "ERROR"
            /\ TvbToNestManager_start(rank) = "OK" =>
                  \/ procs[rank] = "_send" /\ eret = "OK" /\ emit.tag = 2
                  \/ procs[rank] = "_receive" /\ rret = "OK" /\ recv.tag = 1

\* C34: NEST->TVB: in every reachable state the state cell holds
\* READY_TO_RECEIVE or READY_TO_TRANSFORM, so the busy-wait of the receive
\* loop (for READY_TO_RECEIVE) and the busy-wait of the emit loop (for
\* READY_TO_TRANSFORM) are never both blocked.
C34_StateCellIsOneOfTwo ==
    direction = "NEST_TO_TVB" =>
        /\ StateCell \in {READY_TO_RECEIVE, READY_TO_TRANSFORM}
        /\ ~ /\ rpc = "r_wait" /\ StateCell # READY_TO_RECEIVE
             /\ epc = "e_wait" /\ ~NT_send_BufferReady

\* C35: NEST->TVB: stop() of the communicator can be called in every
\* state and returns OK; the call changes neither the shared buffer nor the
\* state of either loop, closes no intercomm, and ends no loop.
C35_StopHasNoEffect ==
    /\ [](direction = "NEST_TO_TVB" => ENABLED NT_stop)
    /\ [][stopped' # stopped =>
            /\ stopped' = "OK"
            /\ UNCHANGED <<buffer, rpc, recv, rret, epc, emit, eret, hist,
                           wire, links, procs>>]_vars

\* stop() has returned OK while the receive loop is in the middle of a
\* payload step, and the loop has gone on to deposit the step
C35_Witness ==
    /\ direction = "NEST_TO_TVB"
    /\ stopped = "OK"
    /\ rret = "RUNNING"
    /\ eret = "RUNNING"
    /\ hist.deposits = 1
    /\ rpc = "r_set_header"
    /\ \A rank \in DOMAIN links : OpenLinks(rank) # {}

\* the triples spikes_to_rate has put into the buckets it returned
C36_TriplesProcessed ==
    SumSeq([i \in 1..nb_neurons |-> Len(emit.data[i])])

\* C36: spikes_to_rate reads only valid payload: whatever the header value
\* size, a multiple of 3 or not, three times the number of triples it has
\* processed is at most size, so that no cell at index >= size is read.
C36_ReadsOnlyValidPayload ==
    (direction = "NEST_TO_TVB" /\ epc = "e_set_ready") =>
        3 * C36_TriplesProcessed <= emit.size

\* the spike times of the first m triples of the buffer that carry the
\* neuron id `id`, in buffer order
C37_TimesOf(buf, m, id) ==
    LET Carries(k) == buf[3 * (k - 1) + 2] = id
        sel == SelectSeq([k \in 1..m |-> k], Carries)
    IN  [j \in 1..Len(sel) |-> buf[3 * (sel[j] - 1) + 3]]

\* the header is 3 * m and the m triples carry ids of the nb_neurons neurons
C37_WholeTriplesOfKnownNeurons ==
    /\ emit.size % 3 = 0
    /\ emit.size <= B - 2
    /\ \A k \in 1..(emit.size \div 3) :
          /\ buffer[3 * (k - 1) + 2] >= first_id
          /\ buffer[3 * (k - 1) + 2] < first_id + nb_neurons

\* C37: bucketing: for a buffer of 3 * m floats whose neuron ids lie in
\* [first_id, first_id + nb_neurons), the transformer returns, for every
\* neuron, the spike times of the triples that carry its id, in buffer
\* order, and nothing else: each spike time in one bucket, the lengths
\* summing to m, an empty train for a neuron without spikes.
C37_BucketsPerNeuron ==
    [][(/\ direction = "NEST_TO_TVB"
        /\ epc = "e_transform"
        /\ epc' # epc
        /\ C37_WholeTriplesOfKnownNeurons) =>
          /\ epc' = "e_set_ready"
          /\ Len(emit'.data) = nb_neurons
          /\ \A i \in 1..nb_neurons :
                emit'.data[i] =
                    C37_TimesOf(buffer, emit.size \div 3, first_id + i - 1)
          /\ SumSeq([i \in 1..nb_neurons |-> Len(emit'.data[i])])
                = emit.size \div 3]_vars

\* C38: ElephantDelegator routing: looking up a name never raises; calling
\* what the lookup returned forwards to the spike-rate convertor for every
\* public name SpikeRateConvertor defines, whether or not ElephantPlugin
\* defines it too, forwards to the plugin for a public name only
\* ElephantPlugin defines, and raises AttributeError for a name neither
\* class defines.
C38_RoutingByName ==
    LET f == deleg.func
        on_convertor == f \in deleg.dir_SpikeRateConvertor
        on_plugin == f \in deleg.dir_ElephantPlugin
        public == ~startswith_underscore(f)
    IN  /\ deleg.phase = "looked_up" =>
              deleg.raised = "none" /\ deleg.forwarded_to = "none"
        /\ deleg.phase = "called" =>
              /\ (public /\ on_convertor) =>
                    /\ deleg.forwarded_to = "spike_rate_conversion"
                    /\ deleg.raised = "none"
              /\ (public /\ on_plugin /\ ~on_convertor) =>
                    /\ deleg.forwarded_to = "elephant_plugin"
                    /\ deleg.raised = "none"
              /\ (~on_plugin /\ ~on_convertor) =>
                    /\ deleg.forwarded_to = "none"
                    /\ deleg.raised = "AttributeError"

\* a name both classes define has been called and went to the convertor
C38_Witness ==
    /\ deleg.phase = "called"
    /\ deleg.func = "rate_to_spike"
    /\ "rate_to_spike" \in deleg.dir_SpikeRateConvertor
    /\ "rate_to_spike" \in deleg.dir_ElephantPlugin
    /\ deleg.forwarded_to = "spike_rate_conversion"

====
